---- MODULE Spec2Model ----
(***************************************************************************)
(* The epoch-phase loop of LuminoNode.run (src/node_client.py) with the    *)
(* six phase handlers it dispatches, the commit-reveal secret it holds and *)
(* the ledger it polls.  The ledger is the environment: it moves through   *)
(* its phases on its own, and every call made to it may fail.              *)
(***************************************************************************)
EXTENDS Integers, Sequences, FiniteSets, TLC

\* ---------------------------------------------------------------- bounds
\* Number of distinct values random.randbytes(32) is drawn from.
NSecrets == 2
\* Number of job ids the ledger may report as assigned to this node.
MaxJobs == 2
\* The dispatch and phase-change counters saturate at this value.
MaxCount == 3

\* ------------------------------------------------------------- constants
\* self.node_id of the local node; the ledger knows one other node.
node_id == 1
Nodes == {node_id, node_id + 1}
Secrets == 1..NSecrets
JobIds == 1..MaxJobs
\* Python's None, for last_phase, current_secret and current_commitment.
None == 0
NoPhase == "None"
\* `state` before its first assignment in run().
Unbound == -1
\* The code the ledger reports while it is paused (EPOCH_STATE[6]).
PAUSED == 6
DISPUTE == 5
Phases == 0..5

\* Web3.solidity_keccak(['bytes32'], [secret]): a collision-free digest whose
\* values are disjoint from the secrets.
Hash(s) == 2 * s + 11

\* state_names of run(): the codes 0..5 have a name, 6 has none (KeyError).
state_names ==
  [s \in Phases |-> CASE s = 0 -> "COMMIT" [] s = 1 -> "REVEAL" [] s = 2 -> "ELECT"
                      [] s = 3 -> "EXECUTE" [] s = 4 -> "CONFIRM" [] s = 5 -> "DISPUTE"]

Min(a, b) == IF a <= b THEN a ELSE b
Bump(n) == Min(n + 1, MaxCount)

\* ---------------------------------------------------------------------------
\* The Contract Failure Decoder: class LuminoErrorHandler (lines 23-268).
\* Text is a TLA+ string; bytes are sequences of 0..255.
\* ---------------------------------------------------------------------------

\* Bound: the parameter values of the encoded errors decoded are 0..MaxArg.
MaxArg == 1

HexDigits == "0123456789abcdef"
UpperHexDigits == "ABCDEF"
RevertPrefix == "execution reverted: "

CharAt(s, i) == SubSeq(s, i, i)

\* The position of character c in s, 0 when it is not there.
IndexIn(c, s) ==
  IF \E i \in 1..Len(s) : CharAt(s, i) = c
    THEN CHOOSE i \in 1..Len(s) : CharAt(s, i) = c
    ELSE 0

\* Python's s[a:b] and s[a:] for 0 <= a <= b.
Slice(s, a, b) == IF a >= Len(s) THEN "" ELSE SubSeq(s, a + 1, Min(b, Len(s)))
SliceFrom(s, a) == Slice(s, a, Len(s))

\* str.startswith.
StartsWith(s, p) == Len(s) >= Len(p) /\ SubSeq(s, 1, Len(p)) = p

\* The first position at which sep occurs in s, 0 when it does not.
Find(s, sep) ==
  LET at == {i \in 1..(Len(s) - Len(sep) + 1) : SubSeq(s, i, i + Len(sep) - 1) = sep}
  IN IF at = {} THEN 0 ELSE CHOOSE i \in at : \A k \in at : i <= k

\* s.split(sep)[1] for s in which sep occurs: the text between the first
\* occurrence of sep and the next one (or the end).
SplitSecond(s, sep) ==
  LET rest == SliceFrom(s, Find(s, sep) + Len(sep) - 1)
      next == Find(rest, sep)
  IN IF next = 0 THEN rest ELSE Slice(rest, 0, next - 1)

\* The value of a hex digit of either case, -1 for any other character.
HexValue(c) ==
  IF IndexIn(c, HexDigits) > 0 THEN IndexIn(c, HexDigits) - 1
  ELSE IF IndexIn(c, UpperHexDigits) > 0 THEN IndexIn(c, UpperHexDigits) + 9
  ELSE -1

\* bytes.fromhex: two hex digits a byte, blanks allowed between bytes; <<-1>>
\* stands for the ValueError of a non-hex character, of a blank within a byte
\* or of an odd digit count.
fromhex(s) ==
  LET n == Len(s)
      seen == [i \in 0..n |-> Cardinality({j \in 1..i : CharAt(s, j) # " "})]
      at(m) == CHOOSE i \in 1..n : CharAt(s, i) # " " /\ seen[i] = m
  IN IF \/ seen[n] % 2 = 1
        \/ \E i \in 1..n : CharAt(s, i) = " " /\ seen[i] % 2 = 1
        \/ \E i \in 1..n : CharAt(s, i) # " " /\ HexValue(CharAt(s, i)) < 0
       THEN <<-1>>
       ELSE [k \in 1..(seen[n] \div 2) |->
               16 * HexValue(CharAt(s, at(2 * k - 1))) + HexValue(CharAt(s, at(2 * k)))]

\* bytes.hex(): two lower-case digits a byte.
RECURSIVE HexOf(_)
HexOf(bs) ==
  IF bs = <<>> THEN ""
  ELSE CharAt(HexDigits, (bs[1] \div 16) + 1) \o CharAt(HexDigits, (bs[1] % 16) + 1)
         \o HexOf(Tail(bs))

\* str(n) for a natural number.
RECURSIVE Dec(_)
Dec(n) ==
  IF n < 10 THEN CharAt(HexDigits, n + 1)
  ELSE Dec(n \div 10) \o CharAt(HexDigits, (n % 10) + 1)

AllZero(bs) == \A k \in DOMAIN bs : bs[k] = 0

\* The big-endian integers computed are those of at most three bytes.
Small(bs) == Len(bs) <= 3 \/ AllZero(SubSeq(bs, 1, Len(bs) - 3))

\* int.from_bytes(bs, "big") for Small(bs).
RECURSIVE BytesInt(_)
BytesInt(bs) ==
  IF bs = <<>> THEN 0
  ELSE 256 * BytesInt(SubSeq(bs, 1, Len(bs) - 1)) + bs[Len(bs)]

\* The outcome of a step that may raise: exc names the exception ("" for none).
Ok(v) == [exc |-> "", val |-> v]
Raise(e) == [exc |-> e, val |-> <<>>]

\* A decoded ABI value: its type and the bytes that carry it.
Value(type, bs) == [type |-> type, bytes |-> bs]

Ceil32(n) == ((n + 31) \div 32) * 32

\* eth_abi's decoder of one head slot (strict mode): the i-th 32-byte word,
\* its padding checked; a string is read at the offset its slot holds.
DecodeSlot(type, data, i) ==
  IF Len(data) < 32 * i THEN Raise("InsufficientDataBytes")
  ELSE LET w == SubSeq(data, 32 * (i - 1) + 1, 32 * i) IN
    CASE type = "uint256" -> Ok(Value(type, w))
      [] type = "bytes32" -> Ok(Value(type, w))
      [] type = "uint8" ->
           IF AllZero(SubSeq(w, 1, 31)) THEN Ok(Value(type, SubSeq(w, 32, 32)))
           ELSE Raise("NonEmptyPaddingBytes")
      [] type = "address" ->
           IF AllZero(SubSeq(w, 1, 12)) THEN Ok(Value(type, SubSeq(w, 13, 32)))
           ELSE Raise("NonEmptyPaddingBytes")
      [] type = "string" ->
           IF ~Small(w) \/ Len(data) < BytesInt(w) + 32 THEN Raise("InsufficientDataBytes")
           ELSE LET off == BytesInt(w)
                    lw == SubSeq(data, off + 1, off + 32)
                IN IF ~Small(lw) \/ Len(data) < off + 32 + Ceil32(BytesInt(lw))
                     THEN Raise("InsufficientDataBytes")
                   ELSE LET n == BytesInt(lw)
                            body == SubSeq(data, off + 33, off + 32 + n)
                            pad == SubSeq(data, off + 33 + n, off + 32 + Ceil32(n))
                        IN IF ~AllZero(pad) THEN Raise("NonEmptyPaddingBytes")
                           ELSE IF \E k \in DOMAIN body : body[k] >= 128
                             THEN Raise("UnicodeDecodeError")
                           ELSE Ok(Value(type, body))

\* eth_abi.decode(types, data): the slots in order, the first failure raised.
RECURSIVE DecodeSlots(_, _, _)
DecodeSlots(types, data, i) ==
  IF i > Len(types) THEN Ok(<<>>)
  ELSE LET one == DecodeSlot(types[i], data, i) IN
       IF one.exc # "" THEN Raise(one.exc)
       ELSE LET rest == DecodeSlots(types, data, i + 1) IN
            IF rest.exc # "" THEN rest ELSE Ok(<<one.val>> \o rest.val)

decode(types, data) == DecodeSlots(types, data, 1)

\* Printable ASCII from 0x20 to 0x5f and from 0x61 to 0x7e, in order.
AsciiLow == " !\"#$%&'()*+,-./0123456789:;<=>?@ABCDEFGHIJKLMNOPQRSTUVWXYZ[\\]^_"
AsciiHigh == "abcdefghijklmnopqrstuvwxyz{|}~"

\* bytes.decode("utf-8") of bytes below 128; a byte that is in neither table
\* is shown as \xhh.
RECURSIVE Text(_)
Text(bs) ==
  IF bs = <<>> THEN ""
  ELSE (IF bs[1] >= 32 /\ bs[1] <= 95 THEN CharAt(AsciiLow, bs[1] - 31)
        ELSE IF bs[1] >= 97 /\ bs[1] <= 126 THEN CharAt(AsciiHigh, bs[1] - 96)
        ELSE "\\x" \o HexOf(<<bs[1]>>)) \o Text(Tail(bs))

\* What an f-string shows of a decoded value: the decimal digits of an
\* integer (its hex digits beyond three bytes), the lower-case 0x text of an
\* address, the text of a string.
PyStr(v) ==
  CASE v.type \in {"uint256", "uint8"} ->
         IF Small(v.bytes) THEN Dec(BytesInt(v.bytes)) ELSE "0x" \o HexOf(v.bytes)
    [] v.type = "address" -> "0x" \o HexOf(v.bytes)
    [] v.type = "string" -> Text(v.bytes)
    [] OTHER -> "b'" \o HexOf(v.bytes) \o "'"

BytesHex(v) == HexOf(v.bytes)

\* Lines 34-42: EPOCH_STATE.get(n, 'Unknown').
EpochStateName(v) ==
  LET n == BytesInt(v.bytes) IN
  CASE n = 0 -> "COMMIT" [] n = 1 -> "REVEAL" [] n = 2 -> "ELECT" [] n = 3 -> "EXECUTE"
    [] n = 4 -> "CONFIRM" [] n = 5 -> "DISPUTE" [] n = 6 -> "PAUSED" [] OTHER -> "Unknown"

\* Lines 27-32: JOB_STATUS.get(n, 'Unknown').
JobStatusName(v) ==
  LET n == BytesInt(v.bytes) IN
  CASE n = 0 -> "NEW" [] n = 1 -> "ASSIGNED" [] n = 2 -> "CONFIRMED" [] n = 3 -> "COMPLETE"
    [] OTHER -> "Unknown"

\* The digits of text d without its trailing zeros.
RECURSIVE StripZeros(_)
StripZeros(d) ==
  IF Len(d) > 1 /\ CharAt(d, Len(d)) = "0" THEN StripZeros(SubSeq(d, 1, Len(d) - 1)) ELSE d

\* Web3.from_wei(n, 'ether') as an f-string shows it: 0 for 0, else the
\* Decimal n / 10^18, which for n below 10^12 prints in scientific notation.
FromWeiEther(v) ==
  IF ~Small(v.bytes) THEN "0x" \o HexOf(v.bytes) \o "e-18"
  ELSE LET n == BytesInt(v.bytes)
           d == StripZeros(Dec(n))
       IN IF n = 0 THEN "0"
          ELSE CharAt(d, 1) \o (IF Len(d) > 1 THEN "." \o SliceFrom(d, 1) ELSE "")
                 \o "E-" \o Dec(19 - Len(Dec(n)))

\* Lines 46-195: the registry, in the order of the source (the formatters are
\* in Format below).
error_defs ==
  <<[name |-> "RoleManagerUnauthorized", params |-> <<"address">>],
    [name |-> "InvalidRole", params |-> <<"bytes32">>],
    [name |-> "CannotRevokeAdmin", params |-> <<>>],
    [name |-> "MustConfirmRenounce", params |-> <<"address">>],
    [name |-> "InvalidState", params |-> <<"uint8">>],
    [name |-> "BelowMinimumDeposit", params |-> <<"uint256", "uint256">>],
    [name |-> "InsufficientBalance", params |-> <<"address", "uint256", "uint256">>],
    [name |-> "ExistingWithdrawRequest", params |-> <<"address">>],
    [name |-> "NoWithdrawRequest", params |-> <<"address">>],
    [name |-> "LockPeriodActive", params |-> <<"address", "uint256">>],
    [name |-> "TransferFailed", params |-> <<>>],
    [name |-> "InsufficientContractBalance", params |-> <<"uint256", "uint256">>],
    [name |-> "InvalidJobStatus", params |-> <<"uint256", "uint8", "uint8">>],
    [name |-> "InvalidStatusTransition", params |-> <<"uint8", "uint8">>],
    [name |-> "JobAlreadyProcessed", params |-> <<"uint256">>],
    [name |-> "JobNotComplete", params |-> <<"uint256">>],
    [name |-> "InvalidModelName", params |-> <<"string">>],
    [name |-> "NoCommitmentFound", params |-> <<"uint256", "uint256">>],
    [name |-> "InvalidSecret", params |-> <<"uint256">>],
    [name |-> "NoRevealsSubmitted", params |-> <<"uint256">>],
    [name |-> "MissingReveal", params |-> <<"uint256">>],
    [name |-> "NotCurrentLeader", params |-> <<"address", "address">>],
    [name |-> "NoRandomValueForEpoch", params |-> <<"uint256">>],
    [name |-> "LeaderAlreadyElected", params |-> <<"uint256">>],
    [name |-> "NodeNotFound", params |-> <<"uint256">>],
    [name |-> "NodeNotActive", params |-> <<"uint256">>],
    [name |-> "InsufficientStake", params |-> <<"address", "uint256">>],
    [name |-> "InvalidNodeOwner", params |-> <<"uint256", "address">>],
    [name |-> "AlreadyWhitelisted", params |-> <<"address">>],
    [name |-> "CooldownActive", params |-> <<"address", "uint256">>],
    [name |-> "NotWhitelisted", params |-> <<"address">>],
    [name |-> "EpochAlreadyProcessed", params |-> <<"uint256">>]>>

\* Line 206: w3.keccak(text=signature)[:4].hex(), the first four bytes of the
\* Keccak-256 digest as eight lower-case hex digits without 0x, for the
\* signatures of the registry and for two signatures whose digests begin with
\* the same four bytes.
Keccak4Hex(signature) ==
  CASE signature = "transfer(address,uint256)" -> "a9059cbb"
    [] signature = "many_msg_babbage(bytes1)" -> "a9059cbb"
    [] signature = "RoleManagerUnauthorized(address)" -> "babcb20f"
    [] signature = "InvalidRole(bytes32)" -> "125a2bb7"
    [] signature = "CannotRevokeAdmin()" -> "b462b2ec"
    [] signature = "MustConfirmRenounce(address)" -> "25df9a9d"
    [] signature = "InvalidState(uint8)" -> "d07e8976"
    [] signature = "BelowMinimumDeposit(uint256,uint256)" -> "1e2be211"
    [] signature = "InsufficientBalance(address,uint256,uint256)" -> "db42144d"
    [] signature = "ExistingWithdrawRequest(address)" -> "ede3885b"
    [] signature = "NoWithdrawRequest(address)" -> "daa1556a"
    [] signature = "LockPeriodActive(address,uint256)" -> "8db6b2f3"
    [] signature = "TransferFailed()" -> "90b8ec18"
    [] signature = "InsufficientContractBalance(uint256,uint256)" -> "b7ddd88b"
    [] signature = "InvalidJobStatus(uint256,uint8,uint8)" -> "b882eaf0"
    [] signature = "InvalidStatusTransition(uint8,uint8)" -> "e3962ba3"
    [] signature = "JobAlreadyProcessed(uint256)" -> "1c8e58a7"
    [] signature = "JobNotComplete(uint256)" -> "14e0901f"
    [] signature = "InvalidModelName(string)" -> "913a6000"
    [] signature = "NoCommitmentFound(uint256,uint256)" -> "fbbf65df"
    [] signature = "InvalidSecret(uint256)" -> "9375bff9"
    [] signature = "NoRevealsSubmitted(uint256)" -> "7fba3971"
    [] signature = "MissingReveal(uint256)" -> "69af4d85"
    [] signature = "NotCurrentLeader(address,address)" -> "dc1a6c40"
    [] signature = "NoRandomValueForEpoch(uint256)" -> "34e11255"
    [] signature = "LeaderAlreadyElected(uint256)" -> "3dc5ef45"
    [] signature = "NodeNotFound(uint256)" -> "ed62d229"
    [] signature = "NodeNotActive(uint256)" -> "f60bbb03"
    [] signature = "InsufficientStake(address,uint256)" -> "01313d32"
    [] signature = "InvalidNodeOwner(uint256,address)" -> "199f733c"
    [] signature = "AlreadyWhitelisted(address)" -> "0bfcef28"
    [] signature = "CooldownActive(address,uint256)" -> "61083b7f"
    [] signature = "NotWhitelisted(address)" -> "df17e316"
    [] signature = "EpochAlreadyProcessed(uint256)" -> "00b90be2"

\* Lines 46-195: the "format" lambda of each registered error.
Format(name, args) ==
  CASE name = "RoleManagerUnauthorized" ->
         "Account " \o PyStr(args[1]) \o " is not authorized for this role"
    [] name = "InvalidRole" ->
         "Invalid role: " \o BytesHex(args[1])
    [] name = "CannotRevokeAdmin" ->
         "Cannot revoke the last admin role"
    [] name = "MustConfirmRenounce" ->
         "Account " \o PyStr(args[1]) \o " must confirm renounce"
    [] name = "InvalidState" ->
         "Invalid epoch state: " \o EpochStateName(args[1])
    [] name = "BelowMinimumDeposit" ->
         "Deposit amount " \o FromWeiEther(args[1]) \o " is below minimum required " \o FromWeiEther(args[2])
    [] name = "InsufficientBalance" ->
         "Insufficient balance for " \o PyStr(args[1]) \o ": requested " \o FromWeiEther(args[2]) \o ", available " \o FromWeiEther(args[3])
    [] name = "ExistingWithdrawRequest" ->
         "Active withdrawal request already exists for " \o PyStr(args[1])
    [] name = "NoWithdrawRequest" ->
         "No active withdrawal request found for " \o PyStr(args[1])
    [] name = "LockPeriodActive" ->
         "Lock period still active for " \o PyStr(args[1]) \o ", " \o PyStr(args[2]) \o " seconds remaining"
    [] name = "TransferFailed" ->
         "Token transfer failed"
    [] name = "InsufficientContractBalance" ->
         "Contract balance insufficient: requested " \o FromWeiEther(args[1]) \o ", available " \o FromWeiEther(args[2])
    [] name = "InvalidJobStatus" ->
         "Invalid job status for job " \o PyStr(args[1]) \o ": current " \o JobStatusName(args[2]) \o ", attempted " \o JobStatusName(args[3])
    [] name = "InvalidStatusTransition" ->
         "Invalid job status transition from " \o JobStatusName(args[1]) \o " to " \o JobStatusName(args[2])
    [] name = "JobAlreadyProcessed" ->
         "Job " \o PyStr(args[1]) \o " has already been processed"
    [] name = "JobNotComplete" ->
         "Job " \o PyStr(args[1]) \o " is not in completed state"
    [] name = "InvalidModelName" ->
         "Invalid model name: " \o PyStr(args[1])
    [] name = "NoCommitmentFound" ->
         "No commitment found for epoch " \o PyStr(args[1]) \o ", node " \o PyStr(args[2])
    [] name = "InvalidSecret" ->
         "Invalid secret revealed for node " \o PyStr(args[1])
    [] name = "NoRevealsSubmitted" ->
         "No secrets revealed for epoch " \o PyStr(args[1])
    [] name = "MissingReveal" ->
         "Missing secret reveal from node " \o PyStr(args[1])
    [] name = "NotCurrentLeader" ->
         "Account " \o PyStr(args[1]) \o " is not the current leader (leader is " \o PyStr(args[2]) \o ")"
    [] name = "NoRandomValueForEpoch" ->
         "No random value available for epoch " \o PyStr(args[1])
    [] name = "LeaderAlreadyElected" ->
         "Leader already elected for epoch " \o PyStr(args[1])
    [] name = "NodeNotFound" ->
         "Node " \o PyStr(args[1]) \o " not found"
    [] name = "NodeNotActive" ->
         "Node " \o PyStr(args[1]) \o " is not active"
    [] name = "InsufficientStake" ->
         "Insufficient stake for " \o PyStr(args[1]) \o " with compute rating " \o PyStr(args[2])
    [] name = "InvalidNodeOwner" ->
         "Invalid node owner: " \o PyStr(args[2]) \o " does not own node " \o PyStr(args[1])
    [] name = "AlreadyWhitelisted" ->
         "Computing provider " \o PyStr(args[1]) \o " is already whitelisted"
    [] name = "CooldownActive" ->
         "Cooldown period active for " \o PyStr(args[1]) \o ", " \o PyStr(args[2]) \o " seconds remaining"
    [] name = "NotWhitelisted" ->
         "Computing provider " \o PyStr(args[1]) \o " is not whitelisted"
    [] name = "EpochAlreadyProcessed" ->
         "Epoch incentives has already been processed, got epoch " \o PyStr(args[1])

\* ",".join(params).
RECURSIVE Join(_)
Join(params) ==
  IF params = <<>> THEN ""
  ELSE IF Len(params) = 1 THEN params[1]
  ELSE params[1] \o "," \o Join(Tail(params))

\* The canonical signature of an error definition: Name(type1,type2,...).
Signature(error_def) == error_def.name \o "(" \o Join(error_def.params) \o ")"

\* Lines 197-207: the selector table __init__ builds from the registry defs.
\* Only line 202 is in the body of the loop of line 200; lines 203-207 follow
\* the loop and run once, with error_name, error_def and params_str as its
\* last iteration left them.  With nothing registered the loop leaves them
\* unbound and line 203 raises.
SelectorsOf(defs) ==
  IF defs = <<>> THEN [failed |-> TRUE, table |-> <<>>]
  ELSE LET error_def == defs[Len(defs)]
           params_str == Join(error_def.params)
           signature == error_def.name \o "(" \o params_str \o ")"
           selector == Keccak4Hex(signature)
       IN [failed |-> FALSE, table |-> selector :> error_def]

\* self.error_selectors as __init__ leaves it for the registry of the source.
BuildSelectors == SelectorsOf(error_defs).table

\* Two error definitions whose signatures have the same selector.
CollidingA == [name |-> "transfer", params |-> <<"address", "uint256">>]
CollidingB == [name |-> "many_msg_babbage", params |-> <<"bytes1">>]

\* The registries __init__ is run on: every prefix of the registry of the
\* source, alone or with the colliding definitions before or after it.
Registries ==
  UNION {{SubSeq(error_defs, 1, k),
          SubSeq(error_defs, 1, k) \o <<CollidingA>>,
          SubSeq(error_defs, 1, k) \o <<CollidingA, CollidingB>>,
          SubSeq(error_defs, 1, k) \o <<CollidingB, CollidingA>>,
          <<CollidingA, CollidingB>> \o SubSeq(error_defs, 1, k)} : k \in 0..Len(error_defs)}

\* The values decode_error is given: a str, None, or a tuple of such.
RawStr(t) == [kind |-> "str", text |-> t, items |-> <<>>]
RawNone == [kind |-> "none", text |-> "", items |-> <<>>]
RawTuple(items) == [kind |-> "tuple", text |-> "", items |-> items]

\* What an f-string shows of such a value.
Show(r) ==
  CASE r.kind = "str" -> r.text
    [] r.kind = "none" -> "None"
    [] OTHER -> IF r.items = <<>> THEN "()" ELSE "(...)"

\* How a call ends: with a string returned, or with an exception raised.
Returned(t) == [raised |-> FALSE, text |-> t]
Raised(e) == [raised |-> TRUE, text |-> e]

\* Where the try body of decode_error stops: exc is the class of the exception
\* raised ("" when it returned text; the wording of str(e) is not modelled),
\* data the value error_data held at that point.
Stopped(e, t, d) == [exc |-> e, text |-> t, data |-> d]

\* The selector taken from the first characters of the text, 0x included.
SelectorWithPrefix(t) == Slice(t, 0, 8)

\* Lines 227-230: the selector, the eight characters after an optional 0x.
Selector(t) == IF StartsWith(t, "0x") THEN Slice(t, 2, 10) ELSE Slice(t, 0, 8)

\* The parameter text taken from the ninth character on, whatever the prefix.
ParamDataNoOffset(t) == SliceFrom(t, 8)

\* Line 241: the text of the parameters, after the selector.
ParamData(t) == IF StartsWith(t, "0x") THEN SliceFrom(t, 10) ELSE SliceFrom(t, 8)

\* Lines 219-249: the try body of decode_error.
TryDecode(table, error_data) ==
  IF error_data.kind = "tuple" /\ error_data.items = <<>>
    THEN Stopped("IndexError", "", error_data)
  ELSE LET first == IF error_data.kind = "tuple" THEN error_data.items[1] ELSE error_data IN
  IF first.kind # "str"
    THEN Stopped("AttributeError", "", first)
  ELSE LET t == IF StartsWith(first.text, RevertPrefix)
                  THEN SplitSecond(first.text, RevertPrefix)
                  ELSE first.text
           selector == Selector(t)
       IN
  IF selector \notin DOMAIN table
    THEN Stopped("", "Unknown error selector: 0x" \o selector, RawStr(t))
  ELSE LET error_def == table[selector] IN
  IF error_def.params = <<>>
    THEN Stopped("", Format(error_def.name, <<>>), RawStr(t))
  ELSE LET param_data == ParamData(t)
           data == fromhex(param_data)
       IN
  IF data = <<-1>>
    THEN Stopped("ValueError", "", RawStr(t))
  ELSE LET decoded_params == decode(error_def.params, data) IN
  IF decoded_params.exc # ""
    THEN Stopped(decoded_params.exc, "", RawStr(t))
    ELSE Stopped("", Format(error_def.name, decoded_params.val), RawStr(t))

\* decode_error without its except clause: the exception leaves the call.
ExceptDecodeEscapes(res) ==
  IF res.exc = "" THEN Returned(res.text) ELSE Raised(res.exc)

\* Lines 251-252: the except clause of decode_error.
ExceptDecode(res) ==
  IF res.exc = "" THEN Returned(res.text)
  ELSE Returned("Error decoding custom error: " \o Show(res.data)
                  \o " (Decoder error: " \o res.exc \o ")")

\* Lines 209-252.
decode_error(table, error_data) == ExceptDecode(TryDecode(table, error_data))

\* The argument of decode_contract_error: an exception that has the attribute
\* `data` (a ContractLogicError) or has not, and its str().
ContractError(hasData, data, message) ==
  [hasData |-> hasData, data |-> data, message |-> message]

\* Lines 254-268.
decode_contract_error(table, error) ==
  LET inner == IF error.hasData THEN decode_error(table, error.data)
                                ELSE Raised("AttributeError")
  IN IF ~inner.raised THEN inner
     ELSE Returned("Failed to decode contract error: " \o error.message
                     \o " (Decoder error: " \o inner.text \o ")")

\* ---- the payloads decoded

RECURSIVE ZeroHex(_)
ZeroHex(n) == IF n = 0 THEN "" ELSE "0" \o ZeroHex(n - 1)

Zeros(n) == [k \in 1..n |-> 0]

\* The ABI head word of parameter value v of a type, as hex text, and the
\* value decoding it gives.  An address is written with upper-case digits.
EncodeWord(type, v, nparams) ==
  CASE type = "address" -> ZeroHex(24) \o "ABCD" \o ZeroHex(34) \o HexOf(<<v>>)
    [] type = "bytes32" -> "ff" \o ZeroHex(60) \o HexOf(<<v>>)
    [] type = "string" -> ZeroHex(62) \o HexOf(<<32 * nparams>>)
    [] OTHER -> ZeroHex(62) \o HexOf(<<v>>)

\* The ABI tail of a parameter: for a string, the length and the padded
\* bytes of the text "m0", "m1", ...
EncodeTail(type, v) ==
  IF type = "string" THEN ZeroHex(62) \o "02" \o "6d" \o HexOf(<<48 + v>>) \o ZeroHex(60) ELSE ""

ValueOf(type, v) ==
  CASE type = "address" -> Value(type, <<171, 205>> \o Zeros(17) \o <<v>>)
    [] type = "bytes32" -> Value(type, <<255>> \o Zeros(30) \o <<v>>)
    [] type = "string" -> Value(type, <<109, 48 + v>>)
    [] type = "uint8" -> Value(type, <<v>>)
    [] OTHER -> Value(type, Zeros(31) \o <<v>>)

RECURSIVE EncodeHeads(_, _, _)
EncodeHeads(params, vals, i) ==
  IF i > Len(params) THEN ""
  ELSE EncodeWord(params[i], vals[i], Len(params)) \o EncodeHeads(params, vals, i + 1)

RECURSIVE EncodeTails(_, _, _)
EncodeTails(params, vals, i) ==
  IF i > Len(params) THEN ""
  ELSE EncodeTail(params[i], vals[i]) \o EncodeTails(params, vals, i + 1)

\* The revert payload of error e raised with parameter values vals: the
\* selector of its own signature followed by the ABI encoding of vals.
Payload(e, vals) ==
  Keccak4Hex(error_defs[e].name \o "(" \o Join(error_defs[e].params) \o ")")
    \o EncodeHeads(error_defs[e].params, vals, 1)
    \o EncodeTails(error_defs[e].params, vals, 1)

\* The message the formatter of error e gives for the values vals.
Message(e, vals) ==
  Format(error_defs[e].name,
         [i \in 1..Len(error_defs[e].params) |-> ValueOf(error_defs[e].params[i], vals[i])])

\* Every registered error with every choice of parameter values in 0..MaxArg.
Raisable ==
  {[e |-> e, vals |-> vals] :
     e \in {x \in DOMAIN error_defs : Len(error_defs[x].params) = 0}, vals \in {<<>>}}
  \cup UNION {{[e |-> e, vals |-> vals] : vals \in [1..Len(error_defs[e].params) -> 0..MaxArg]} :
                e \in {x \in DOMAIN error_defs : Len(error_defs[x].params) > 0}}

NoOrigin == [e |-> 0, vals |-> <<>>]

\* A payload as the ledger client may hand it over.
Prefixes == {"", "0x", RevertPrefix, RevertPrefix \o "0x"}

\* Ways a payload arrives damaged: its last digit lost, cut inside the
\* selector, cut after the selector, a non-hex character among the parameters
\* or in the selector, a blank within a byte, the selector in upper case.
Damaged(t) ==
  {Slice(t, 0, Len(t) - 1), Slice(t, 0, 7), Slice(t, 0, 8),
   Slice(t, 0, 8) \o "zz" \o SliceFrom(t, 10), "zz" \o SliceFrom(t, 2),
   Slice(t, 0, 9) \o " " \o SliceFrom(t, 9), Slice(t, 0, 8) \o " " \o SliceFrom(t, 8),
   "0X" \o t, t \o "00"}

\* The inputs of decode_error, each with the error it encodes (NoOrigin when
\* it is not the plain or 0x-prefixed payload of one).
Inputs ==
  {[raw |-> RawStr(p \o Payload(o.e, o.vals)),
    origin |-> IF p \in {"", "0x"} THEN o ELSE NoOrigin] : o \in Raisable, p \in Prefixes}
  \cup {[raw |-> RawStr(p \o d), origin |-> NoOrigin] :
          d \in UNION {Damaged(Payload(o.e, o.vals)) : o \in Raisable}, p \in {"", "0x"}}
  \cup {[raw |-> RawStr(RevertPrefix \o p \o d), origin |-> NoOrigin] :
          d \in Damaged(Payload(Len(error_defs), <<MaxArg>>)), p \in {"", "0x"}}
  \cup {[raw |-> r, origin |-> NoOrigin] :
          r \in {RawNone, RawTuple(<<>>), RawTuple(<<RawNone>>), RawStr(""), RawStr("0x"),
                 RawStr("deadbeef"), RawStr("0xdeadbeef00"), RawStr(RevertPrefix),
                 RawStr(RevertPrefix \o "not enough stake"),
                 RawTuple(<<RawStr("0x" \o Payload(Len(error_defs), <<MaxArg>>)), RawNone>>),
                 RawStr(RevertPrefix \o Payload(Len(error_defs), <<MaxArg>>) \o RevertPrefix)}}

\* ---------------------------------------------------------------------------
\* The event handler: class EventHandler (src/event_handler.py).
\* ---------------------------------------------------------------------------

\* Bounds: the filters created, and the entries a filter returns at one poll.
NFilters == 3
MaxEntries == 2

Filters == 1..NFilters

\* What a filter gives when polled: get_new_entries raises, or returns
\* entries, each of which _log_event logs ("good") or fails on ("bad", e.g. an
\* entry without 'args').
Feeds ==
  {[read |-> "raises", entries |-> <<>>]}
  \cup {[read |-> "ok", entries |-> es] :
          es \in UNION {[1..n -> {"good", "bad"}] : n \in 0..MaxEntries}}

\* Lines 26-27: the entries of one filter, logged in order; an entry that
\* _log_event fails on ends the loop over the filter's entries.
RECURSIVE LogEntries(_, _, _)
LogEntries(f, entries, i) ==
  IF i > Len(entries) THEN [logged |-> <<>>, error |-> FALSE]
  ELSE IF entries[i] = "bad" THEN [logged |-> <<>>, error |-> TRUE]
  ELSE LET rest == LogEntries(f, entries, i + 1)
       IN [logged |-> <<(<<f, i>>)>> \o rest.logged, error |-> rest.error]

\* Lines 25-27: the try body for one filter.
PollFilter(f, fd) ==
  IF fd.read = "raises" THEN [logged |-> <<>>, error |-> TRUE]
  ELSE LogEntries(f, fd.entries, 1)

\* A loop without the except clause: the failure leaves process_events.
ExceptPollEscapes(r) == r.error

\* Lines 28-29: whether the failure of a filter's try body leaves
\* process_events.  `except Exception` catches it and logs; it never does.
ExceptPoll(r) == FALSE

NoPolled == [called |-> FALSE, filters |-> <<>>, logged |-> <<>>, errors |-> <<>>,
             raised |-> FALSE]

\* Lines 22-29: process_events over the filters fs from position i on, fd
\* being what each filter gives.
RECURSIVE process_events(_, _, _)
process_events(fs, fd, i) ==
  IF i > Len(fs)
    THEN [called |-> TRUE, filters |-> <<>>, logged |-> <<>>, errors |-> <<>>, raised |-> FALSE]
  ELSE LET f == fs[i]
           r == PollFilter(f, fd[f])
       IN IF ExceptPoll(r)
            THEN [called |-> TRUE, filters |-> <<f>>, logged |-> r.logged, errors |-> <<>>,
                  raised |-> TRUE]
            ELSE LET rest == process_events(fs, fd, i + 1)
                 IN [called |-> TRUE,
                     filters |-> <<f>> \o rest.filters,
                     logged |-> r.logged \o rest.logged,
                     errors |-> (IF r.error THEN <<f>> ELSE <<>>) \o rest.errors,
                     raised |-> rest.raised]

\* ---------------------------------------------------------------------------
\* The SDK: LuminoSDK._send_transaction (src/lumino_sdk.py).
\* ---------------------------------------------------------------------------

\* The calls of the try body, in the order they are made (lines 125-130).
Stages == <<"get_transaction_count", "build_transaction", "sign_transaction",
            "send_raw_transaction", "wait_for_transaction_receipt">>

\* The classes of exception the calls raise besides ContractLogicError, all
\* subclasses of Exception: a bad argument, a receipt that does not come, a
\* lost connection, a key that does not sign.
OtherExceptions == {"ValueError", "TimeExhausted", "ConnectionError", "TypeError"}

\* What wait_for_transaction_receipt returns: the receipt of a transaction
\* that was mined, whether it succeeded (status 1) or not (status 0).
Receipt(status) == [transactionHash |-> "tx_hash", status |-> status]
NoReceipt == [transactionHash |-> "", status |-> 0]

\* An exception that is no ContractLogicError: it has no revert data.
PlainError(message) == ContractError(FALSE, RawNone, message)

\* How the calls of one _send_transaction go: no call fails (stage 0) and the
\* receipt has the given status, or the stage-th call raises `exc`.
Attempts ==
  {[stage |-> 0, exc |-> "", error |-> PlainError(""), status |-> st] : st \in {0, 1}}
  \cup {[stage |-> s, exc |-> "ContractLogicError",
         error |-> ContractError(TRUE, i.raw, "execution reverted"), status |-> 0] :
          s \in DOMAIN Stages, i \in Inputs}
  \cup {[stage |-> s, exc |-> x, error |-> PlainError(x \o " raised"), status |-> 0] :
          s \in DOMAIN Stages, x \in OtherExceptions}

\* How _send_transaction ends: it returns a receipt, or raises an exception
\* of class exc with the given message; `made` counts the calls it made.
SendReturned(receipt, made) ==
  [returned |-> TRUE, receipt |-> receipt, exc |-> "", message |-> "", made |-> made]
SendRaised(exc, message, made) ==
  [returned |-> FALSE, receipt |-> NoReceipt, exc |-> exc, message |-> message,
   made |-> made]

\* self.error_handler.decode_contract_error (line 134): the class ErrorHandler
\* of module error_handler, imported at line 15. It is the Contract Failure
\* Decoder: it returns a string for every argument and never raises, here the
\* string the decoder of the node gives.
ErrorHandlerDecode(table, error) == decode_contract_error(table, error)

\* Lines 133-135: a revert. An exception raised while the message is decoded
\* would leave the clause as it is, the clause below does not apply to it.
ExceptContractLogicError(table, error, made) ==
  LET error_message == ErrorHandlerDecode(table, error)
  IN IF error_message.raised
       THEN SendRaised(error_message.text, error_message.text, made)
       ELSE SendRaised("ContractError", "Contract error: " \o error_message.text, made)

ExceptExceptionReraised(exc, error, made) == SendRaised(exc, error.message, made)

\* Lines 136-137: any other exception.
ExceptException(exc, error, made) ==
  SendRaised("ContractError", "Transaction failed: " \o error.message, made)

\* Lines 122-137.
send_transaction(table, a) ==
  IF a.stage = 0 THEN SendReturned(Receipt(a.status), Len(Stages))
  ELSE IF a.exc = "ContractLogicError"
         THEN ExceptContractLogicError(table, a.error, a.stage)
         ELSE ExceptException(a.exc, a.error, a.stage)

\* _send_transaction not called.
NoSent == [called |-> FALSE,
           attempt |-> [stage |-> 0, exc |-> "", error |-> PlainError(""), status |-> 0],
           result |-> SendReturned(NoReceipt, 0)]

\* ---------------------------------------------------------------------------

VARIABLES
  \* ---- the node (LuminoNode and the locals of run)
  pc,                 \* "tick" | "dispatch" | "returned" | "crashed"
  state,              \* local `state`: Unbound, or the code last fetched
  last_phase,         \* local `last_phase`: NoPhase or a phase name
  state_changed,      \* local `state_changed` of the current tick
  can_begin,          \* local `can_begin`
  epochs_processed,   \* local `epochs_processed`
  current_secret,     \* self.current_secret (None or a secret)
  current_commitment, \* self.current_commitment (None or a digest)
  is_leader,          \* self.is_leader
  test_mode,          \* self.test_mode
  \* ---- the ledger
  ledgerPhase,        \* the phase the ledger is in
  \* ---- what the current tick did
  handler,            \* the handler dispatched on this tick, or "none"
  outcome,            \* how this tick went
  calls,              \* the ledger calls the handler of this tick made
  batch,              \* the jobs the ledger read of this tick's CONFIRM handler returned
  skipped,            \* observation: this tick fetched, without a dispatch, a phase that no
                      \* tick had fetched since the ledger entered it, the node being begun
  nap,                \* observation: `time_left` of the tick that ended last and the
                      \* seconds slept between its fetch and the next fetch
  staleReveal,        \* REVEAL was dispatched on this tick in a later ledger epoch than the last COMMIT
  \* ---- history of the run
  disputeSeen,        \* 0: no tick fetched DISPUTE; 1: this tick is the first; 2: an earlier one did
  nChanges,           \* phase changes observed while can_begin was true
  nDispatch,          \* handlers dispatched
  raisedIn,           \* the phase whose handler raised, until another phase is fetched
  firstHandler,       \* the first handler ever dispatched, or "none"
  observed,           \* the ledger's current phase was fetched by a tick
  missed,             \* the ledger left a phase no tick had fetched
  failedEver,         \* some ledger call failed (or reported PAUSED)
  commitFailed,       \* the submitCommitment of the most recent commit failed; since then
                      \* the ledger has begun no epoch and no tick has followed a REVEAL dispatch
  genSecret,          \* the secret the most recent commit generated
  sentCommitment,     \* the commitment the most recent commit submitted
  secretStale,        \* the ledger began a new epoch since the COMMIT dispatch of the held secret
  nSettled,           \* settlements (processAll) that went through, counted up to MaxCount
  sinceConfirm,       \* CONFIRM dispatches: 0 none; 1 the first, in this ledger epoch;
                      \* 2 the last one in an earlier epoch; 3 one in this epoch, others before
  \* ---- the error handler (LuminoErrorHandler)
  registry,           \* self.error_defs, in the order of the dict
  built,              \* __init__: "no" not run yet, "yes" completed, "failed" raised
  error_selectors,    \* self.error_selectors: selector text -> error definition
  called,             \* the decoder method called: "none", "decode_error", "decode_contract_error"
  raw,                \* the argument of that call
  origin,             \* the error and values the argument is the payload of, or NoOrigin
  decoded,            \* how the call ended
  kept,               \* observation: an earlier call of decode_error, its argument and
                      \* its result, and the number of calls made since
  \* ---- the event handler (EventHandler)
  event_filters,      \* self.event_filters, the filters in the order they were created
  feed,               \* what each filter has to give at the call of process_events
  polled,             \* how that call went: filters polled, entries logged, errors logged
  \* ---- the SDK (LuminoSDK)
  sent                \* a call of _send_transaction: how its calls went and how it ended

nodeVars == <<pc, state, last_phase, state_changed, can_begin, epochs_processed,
              current_secret, current_commitment, is_leader, test_mode>>
tickVars == <<handler, outcome, calls, batch, staleReveal, nap, skipped>>
histVars == <<disputeSeen, nChanges, nDispatch, raisedIn, firstHandler, observed,
              missed, failedEver, genSecret, sentCommitment, secretStale, sinceConfirm,
              nSettled, commitFailed>>
evVars == <<event_filters, feed, polled>>
decVars == <<registry, built, error_selectors, called, raw, origin, decoded, kept>>
vars == <<nodeVars, ledgerPhase, tickVars, histVars, decVars, evVars, sent>>

\* One ledger call: the function, its arguments (0 where it has none) and
\* whether it went through.
Call(fn, a, b, ok) == [fn |-> fn, a |-> a, b |-> b, ok |-> ok]

\* Bound: the largest time left in a phase that the ledger reports.
MaxTimeLeft == 3

\* Lines 1015-1016: the pause that ends a tick, in seconds.
PollCeiling == 2
SleepTime(time_left) == Min(time_left, PollCeiling)

\* Line 1030: the pause after a failed tick; lines 995 and 1004: the pause of
\* test mode.
RetryPause == 5
TestPause == 10

\* The second element of what getEpochState returns (line 931), the seconds
\* left in the phase: the most on the fetch that finds the phase changed, one
\* second on the fetches that find it as it was.
TimeLeft(changed) == IF changed THEN MaxTimeLeft ELSE 1

\* The observation of how a tick ended; none while a tick is under way.
Nap(tl, secs) == [time_left |-> tl, slept |-> secs]
NoNap == Nap(Unbound, 0)

\* __init__ (node state) and the locals run() sets before its loop.  The ledger
\* may be in any phase when the node starts.
NodeInit ==
  /\ pc = "tick"
  /\ state = Unbound
  /\ last_phase = NoPhase
  /\ state_changed = FALSE
  /\ can_begin = FALSE
  /\ epochs_processed = 0
  /\ current_secret = None
  /\ current_commitment = None
  /\ is_leader = FALSE
  /\ test_mode \in BOOLEAN
  /\ ledgerPhase \in Phases
  /\ handler = "none"
  /\ outcome = "none"
  /\ calls = <<>>
  /\ batch = {}
  /\ staleReveal = FALSE
  /\ nap = NoNap
  /\ skipped = FALSE
  /\ disputeSeen = 0
  /\ nChanges = 0
  /\ nDispatch = 0
  /\ raisedIn = NoPhase
  /\ firstHandler = "none"
  /\ observed = FALSE
  /\ missed = FALSE
  /\ failedEver = FALSE
  /\ genSecret = None
  /\ sentCommitment = None
  /\ secretStale = FALSE
  /\ sinceConfirm = 0
  /\ nSettled = 0
  /\ commitFailed = FALSE

\* process_events not called yet.
NoPoll == feed = <<>> /\ polled = NoPolled

\* No call remembered.
NoKept == [set |-> FALSE, raw |-> RawNone, decoded |-> Returned(""), later |-> 0]

\* No decoder method called yet.
NoCall ==
  /\ called = "none"
  /\ raw = RawNone
  /\ origin = NoOrigin
  /\ decoded = Returned("")
  /\ kept = NoKept

\* The state after construction: the node as above, its error handler built
\* from the registry of the source.
Init ==
  /\ NodeInit
  /\ registry = error_defs
  /\ built = "yes"
  /\ error_selectors = BuildSelectors
  /\ NoCall
  /\ event_filters = <<>>
  /\ NoPoll
  /\ sent = NoSent

\* ------------------------------------------------------- the loop of run()

\* The guard without the startup flag: acts on the first phase it sees.
ShouldDispatchNoGuard(cb, changed) == changed

\* The guard without change detection: acts on every tick.
ShouldDispatchEveryTick(cb, changed) == cb

\* Line 950: the guard of the phase state machine.
ShouldDispatch(cb, changed) == cb /\ changed

\* The chain with the COMMIT and REVEAL branches exchanged.
HandlerForSwapped(s) ==
  CASE s = 0 -> "reveal_secret"
    [] s = 1 -> "submit_commitment"
    [] s = 2 -> "elect_leader"
    [] s = 3 -> "check_and_perform_leader_duties"
    [] s = 4 -> "process_assigned_jobs"
    [] s = 5 -> "start_incentive_cycle"

\* Lines 952-984: the if/elif chain over `state`.
HandlerFor(s) ==
  CASE s = 0 -> "submit_commitment"
    [] s = 1 -> "reveal_secret"
    [] s = 2 -> "elect_leader"
    [] s = 3 -> "check_and_perform_leader_duties"
    [] s = 4 -> "process_assigned_jobs"
    [] s = 5 -> "start_incentive_cycle"

\* The exit test without the epoch count.
ExitNowEarly(ep) == test_mode

\* Line 1002: the exit test of test mode.
ExitNow(ep) == test_mode /\ ep >= 1

\* The end of a tick that lets the node begin after any phase.
TickEndAnyPhase(s, ep, tl) ==
  IF ExitNow(ep)
    THEN pc' = "returned" /\ can_begin' = can_begin /\ nap' = Nap(tl, TestPause)
    ELSE pc' = "tick" /\ can_begin' = TRUE /\ nap' = Nap(tl, SleepTime(tl))

\* Lines 1001-1016: the end of a tick that raised nothing.  s is `state`, ep is
\* `epochs_processed` as the handler left it, tl is `time_left`.
TickEnd(s, ep, tl) ==
  IF ExitNow(ep)
    THEN pc' = "returned" /\ can_begin' = can_begin /\ nap' = Nap(tl, TestPause)
    ELSE /\ pc' = "tick"
         /\ can_begin' = (can_begin \/ s = DISPUTE)
         /\ nap' = Nap(tl, SleepTime(tl))

\* Lines 1018-1030: the handler of the outer try.  It reads `state`, which is
\* unbound until a first fetch has returned: the UnboundLocalError leaves
\* run(); otherwise it sleeps for the retry pause.  tl is `time_left` (Unbound
\* when the fetch did not return), before the seconds slept on the way here.
OuterExcept(s, tl, before) ==
  /\ pc' = IF s = Unbound THEN "crashed" ELSE "tick"
  /\ can_begin' = can_begin
  /\ nap' = Nap(tl, IF s = Unbound THEN before ELSE before + RetryPause)

\* An inner handler that lets the exception leave run().
PhaseErrorEscapes == pc' = "crashed" /\ can_begin' = can_begin /\ nap' = NoNap

\* An inner handler that makes the node wait for the next DISPUTE again.
PhaseErrorRestarts ==
  pc' = "tick" /\ can_begin' = FALSE /\ nap' = Nap(TimeLeft(state_changed), 0)

\* Lines 990-999: the handler of the inner try.  In test mode it sleeps and
\* re-raises, inside the outer try; otherwise `continue`, which goes to the
\* next fetch past lines 1001-1016.
PhaseError ==
  IF test_mode THEN OuterExcept(state, TimeLeft(state_changed), TestPause)
  ELSE pc' = "tick" /\ can_begin' = can_begin /\ nap' = Nap(TimeLeft(state_changed), 0)

\* A tick that is not the first to fetch DISPUTE comes after one that was.
Later(d) == IF d = 1 THEN 2 ELSE d

\* A failed fetch that notes the ledger's phase as observed all the same.
FetchFailedMarksPhase ==
  /\ last_phase' = state_names[ledgerPhase]
  /\ UNCHANGED <<state, state_changed>>

\* Lines 931-943: get_current_epoch_state raised, so the assignments to state,
\* state_changed and last_phase that follow the call are not reached.
FetchFailed == UNCHANGED <<state, last_phase, state_changed>>

\* Lines 910-932 and 1018-1030: get_current_epoch_state raises.
FetchRaises ==
  /\ pc = "tick"
  /\ OuterExcept(state, Unbound, 0)
  /\ handler' = "none" /\ calls' = <<>> /\ outcome' = "fetch_failed"
  /\ batch' = {} /\ staleReveal' = FALSE /\ skipped' = FALSE
  /\ disputeSeen' = Later(disputeSeen)
  /\ failedEver' = TRUE
  /\ FetchFailed
  /\ UNCHANGED <<epochs_processed, current_secret,
                 current_commitment, is_leader, test_mode, ledgerPhase, nChanges,
                 nDispatch, raisedIn, firstHandler, observed, missed, genSecret,
                 sentCommitment, secretStale, sinceConfirm, nSettled>>
  /\ commitFailed' = (commitFailed /\ handler # "reveal_secret")
  /\ UNCHANGED <<decVars, evVars, sent>>

\* A phase table that names code 6: the paused phase is noted as observed.
PausedTickNamed == last_phase' = "PAUSED" /\ state_changed' = (last_phase # "PAUSED")

\* Lines 932-943: state_names[state] raises KeyError for code 6, before
\* state_changed and last_phase are assigned.
PausedTick == UNCHANGED <<last_phase, state_changed>>

\* Lines 932-933 and 1018-1030: the ledger reports PAUSED, which state_names
\* does not hold (KeyError), after `state` was assigned.
FetchPaused ==
  /\ pc = "tick"
  /\ state' = PAUSED
  /\ OuterExcept(state', TimeLeft(FALSE), 0)
  /\ handler' = "none" /\ calls' = <<>> /\ outcome' = "bad_phase"
  /\ batch' = {} /\ staleReveal' = FALSE /\ skipped' = FALSE
  /\ disputeSeen' = Later(disputeSeen)
  /\ failedEver' = TRUE
  /\ PausedTick
  /\ UNCHANGED <<epochs_processed, current_secret,
                 current_commitment, is_leader, test_mode, ledgerPhase, nChanges,
                 nDispatch, raisedIn, firstHandler, observed, missed, genSecret,
                 sentCommitment, secretStale, sinceConfirm, nSettled>>
  /\ commitFailed' = (commitFailed /\ handler # "reveal_secret")
  /\ UNCHANGED <<decVars, evVars, sent>>

\* A detection that also notices that the ledger has left the phase and come
\* back to it.
PhaseChangedOrReentered(last, name) == last # name \/ ~observed

\* Line 935: `state_changed = (last_phase != current_phase)`, a comparison
\* of phase names.
PhaseChanged(last, name) == last # name

\* Lines 932-950: the fetch returns the ledger's phase; change detection; and,
\* when no handler is to run, the end of the tick (lines 1001-1016).
FetchOk ==
  /\ pc = "tick"
  /\ LET s == ledgerPhase
         name == state_names[s]
         changed == PhaseChanged(last_phase, name)
     IN /\ state' = s
        /\ state_changed' = changed
        /\ last_phase' = IF changed THEN name ELSE last_phase
        /\ IF ShouldDispatch(can_begin, changed)
             THEN /\ pc' = "dispatch" /\ can_begin' = can_begin /\ outcome' = "none"
                  /\ nap' = NoNap
             ELSE TickEnd(s, epochs_processed, TimeLeft(changed)) /\ outcome' = "idle"
        /\ nChanges' = IF can_begin /\ changed THEN Bump(nChanges) ELSE nChanges
        /\ disputeSeen' = IF s = DISPUTE THEN (IF disputeSeen = 0 THEN 1 ELSE 2)
                          ELSE Later(disputeSeen)
        /\ raisedIn' = IF raisedIn # name THEN NoPhase ELSE raisedIn
        /\ secretStale' = IF ShouldDispatch(can_begin, changed) /\ s = 0
                            THEN FALSE ELSE secretStale
        /\ staleReveal' = (ShouldDispatch(can_begin, changed) /\ s = 1 /\ secretStale)
        /\ skipped' = (can_begin /\ ~observed /\ ~ShouldDispatch(can_begin, changed))
        /\ sinceConfirm' = IF ShouldDispatch(can_begin, changed) /\ s = 4
                             THEN (IF sinceConfirm = 0 THEN 1 ELSE 3) ELSE sinceConfirm
  /\ handler' = "none" /\ calls' = <<>>
  /\ batch' = {}
  /\ observed' = TRUE
  /\ UNCHANGED <<epochs_processed, current_secret, current_commitment, is_leader,
                 test_mode, ledgerPhase, nDispatch, firstHandler, missed, failedEver,
                 genSecret, sentCommitment, nSettled>>
  /\ commitFailed' = (commitFailed /\ handler # "reveal_secret")
  /\ UNCHANGED <<decVars, evVars, sent>>

\* ------------------------------------------------------------ the handlers

\* The branch of the if/elif chain that handler h sits in is taken.
Dispatched(h) ==
  /\ pc = "dispatch"
  /\ HandlerFor(state) = h
  /\ handler' = h
  /\ nDispatch' = Bump(nDispatch)
  /\ firstHandler' = IF firstHandler = "none" THEN h ELSE firstHandler

\* The handler raised: lines 990-999.
HandlerRaised ==
  /\ PhaseError
  /\ outcome' = "raised"
  /\ raisedIn' = last_phase

\* A handler that is still under way when the loop goes on.
HandlerReturnedPending(ep) ==
  /\ pc' = "dispatch" /\ can_begin' = can_begin /\ nap' = NoNap
  /\ outcome' = "ok"
  /\ raisedIn' = raisedIn

\* The handler returned: the rest of the tick, lines 1001-1016.
HandlerReturned(ep) ==
  /\ TickEnd(state, ep, TimeLeft(state_changed))
  /\ outcome' = "ok"
  /\ raisedIn' = raisedIn

\* A commit that keeps the commitment it already holds.
NewCommitmentStale(s) == IF current_commitment = None THEN Hash(s) ELSE current_commitment

\* Line 735: the commitment of a fresh secret.
NewCommitment(s) == Hash(s)

\* A submission built before the new pair was assigned.
CommitmentArgOld(held, new) == IF held = None THEN new ELSE held

\* Lines 737-740: the commitment submitCommitment carries, read from
\* self.current_commitment after the assignment of line 735.  held is the
\* commitment held before the handler ran, new the one just assigned.
CommitmentArg(held, new) == new

\* A commit that drops the new pair when its submission fails.
HeldAfterCommitRolledBack(s, ok) == IF ok THEN s ELSE None

\* Lines 732-747: the secret held when submit_commitment ends.  The pair is
\* assigned on lines 732-735, before the transaction is built; nothing on the
\* path of an exception assigns it again.
HeldAfterCommit(s, ok) == s

\* Lines 729-747 and 952-955: COMMIT.  The pair is assigned before the
\* transaction, which may raise at build, send or wait.
submit_commitment ==
  /\ Dispatched("submit_commitment")
  /\ \E s \in Secrets, ok \in BOOLEAN :
       /\ current_secret' = HeldAfterCommit(s, ok)
       /\ current_commitment' = IF current_secret' = None THEN None ELSE NewCommitment(s)
       /\ calls' = <<Call("submitCommitment", node_id,
                          CommitmentArg(current_commitment, current_commitment'), ok)>>
       /\ genSecret' = s
       /\ commitFailed' = ~ok
       /\ sentCommitment' = CommitmentArg(current_commitment, current_commitment')
       /\ failedEver' = (failedEver \/ ~ok)
       /\ IF ok THEN HandlerReturned(epochs_processed) ELSE HandlerRaised
  /\ UNCHANGED <<state, last_phase, state_changed, epochs_processed, is_leader,
                 test_mode, ledgerPhase, disputeSeen, nChanges, observed, missed,
                 batch, staleReveal, secretStale, sinceConfirm, nSettled, skipped>>
  /\ UNCHANGED <<decVars, evVars, sent>>

\* Line 757: the value reveal_secret submits.
RevealArg == current_secret

\* A reveal that never finds the secret missing.
HasSecretAlways == TRUE

\* Lines 751 and 958: `if self.current_secret`.  32 random bytes are never
\* falsy, so only None fails the test.
HasSecret == current_secret # None

\* A reveal that drops the pair once it was disclosed.
RevealClears == current_secret' = None /\ current_commitment' = None

\* Lines 749-765: reveal_secret assigns neither self.current_secret nor
\* self.current_commitment.
RevealKeeps == UNCHANGED <<current_secret, current_commitment>>

\* Lines 749-765 and 957-963: REVEAL.  Without a held secret nothing is sent.
reveal_secret ==
  /\ Dispatched("reveal_secret")
  /\ IF ~HasSecret
       THEN /\ calls' = <<>>
            /\ failedEver' = failedEver
            /\ UNCHANGED <<current_secret, current_commitment>>
            /\ HandlerReturned(epochs_processed)
       ELSE \E ok \in BOOLEAN :
            /\ calls' = <<Call("revealSecret", node_id, RevealArg, ok)>>
            /\ failedEver' = (failedEver \/ ~ok)
            /\ RevealKeeps
            /\ IF ok THEN HandlerReturned(epochs_processed) ELSE HandlerRaised
  /\ UNCHANGED <<state, last_phase, state_changed, epochs_processed, is_leader,
                 test_mode, ledgerPhase, disputeSeen, nChanges, observed, missed,
                 genSecret, sentCommitment, batch, staleReveal, secretStale,
                 sinceConfirm, nSettled, commitFailed, skipped>>
  /\ UNCHANGED <<decVars, evVars, sent>>

\* Lines 767-776 and 965-968: ELECT.
elect_leader ==
  /\ Dispatched("elect_leader")
  /\ \E ok \in BOOLEAN :
       /\ calls' = <<Call("electLeader", 0, 0, ok)>>
       /\ failedEver' = (failedEver \/ ~ok)
       /\ IF ok THEN HandlerReturned(epochs_processed) ELSE HandlerRaised
  /\ UNCHANGED <<state, last_phase, state_changed, epochs_processed, current_secret,
                 current_commitment, is_leader, test_mode, ledgerPhase, disputeSeen,
                 nChanges, observed, missed, genSecret, sentCommitment, batch,
                 staleReveal, secretStale, sinceConfirm, nSettled, commitFailed, skipped>>
  /\ UNCHANGED <<decVars, evVars, sent>>

\* A comparison that takes any elected leader for this node.
IsLeaderOfAny(leader) == leader # None

\* Line 781: self.is_leader = (current_leader == self.node_id).
IsLeaderOf(leader) == leader = node_id

\* A handler that lets a failed startAssignmentRound reach run().
AfterStartRoundRaises(ok) == IF ok THEN HandlerReturned(epochs_processed) ELSE HandlerRaised

\* Lines 785-798: both except clauses around startAssignmentRound only log, so
\* the handler returns whether the transaction went through (ok) or not.
AfterStartRound(ok) == HandlerReturned(epochs_processed)

\* Lines 778-800 and 970-977: EXECUTE.  The read of the leader may raise, which
\* reaches run(); a failure of startAssignmentRound is caught here.
\* A failed read that leaves the node a non-leader.
LeaderReadFailedResets == is_leader' = FALSE

\* Line 780: getCurrentLeader raises before the assignment of line 781.
LeaderReadFailed == is_leader' = is_leader

check_and_perform_leader_duties ==
  /\ Dispatched("check_and_perform_leader_duties")
  /\ \E leader \in Nodes \cup {None}, ok \in BOOLEAN :
       IF leader = None
         THEN /\ ok
              /\ calls' = <<Call("getCurrentLeader", 0, 0, FALSE)>>
              /\ LeaderReadFailed
              /\ failedEver' = TRUE
              /\ HandlerRaised
         ELSE /\ is_leader' = IsLeaderOf(leader)
              /\ IF is_leader'
                   THEN /\ calls' = <<Call("getCurrentLeader", 0, leader, TRUE),
                                      Call("startAssignmentRound", 0, 0, ok)>>
                        /\ failedEver' = (failedEver \/ ~ok)
                        /\ AfterStartRound(ok)
                   ELSE /\ ok
                        /\ calls' = <<Call("getCurrentLeader", 0, leader, TRUE)>>
                        /\ failedEver' = failedEver
                        /\ HandlerReturned(epochs_processed)
  /\ UNCHANGED <<state, last_phase, state_changed, epochs_processed, current_secret,
                 current_commitment, test_mode, ledgerPhase, disputeSeen, nChanges,
                 observed, missed, genSecret, sentCommitment, batch, staleReveal,
                 secretStale, sinceConfirm, nSettled, commitFailed, skipped>>
  /\ UNCHANGED <<decVars, evVars, sent>>

\* How far the pipeline of one job gets (lines 809-836).
JobOutcomes == {"done", "confirm_failed", "execute_failed", "complete_failed"}

\* A pipeline that marks the job complete whatever the execution did.
PipelineCallsAlwaysComplete(j, o) ==
  CASE o = "confirm_failed" -> <<Call("confirmJob", j, 0, FALSE)>>
    [] o = "execute_failed" -> <<Call("confirmJob", j, 0, TRUE), Call("execute", j, 0, FALSE),
                                 Call("completeJob", j, 0, TRUE)>>
    [] o = "complete_failed" -> <<Call("confirmJob", j, 0, TRUE), Call("execute", j, 0, TRUE),
                                  Call("completeJob", j, 0, FALSE)>>
    [] o = "done" -> <<Call("confirmJob", j, 0, TRUE), Call("execute", j, 0, TRUE),
                       Call("completeJob", j, 0, TRUE)>>

\* A pipeline that tries a failed confirmation a second time.
PipelineCallsRetry(j, o) ==
  CASE o = "confirm_failed" -> <<Call("confirmJob", j, 0, FALSE), Call("confirmJob", j, 0, FALSE)>>
    [] o = "execute_failed" -> <<Call("confirmJob", j, 0, TRUE), Call("execute", j, 0, FALSE)>>
    [] o = "complete_failed" -> <<Call("confirmJob", j, 0, TRUE), Call("execute", j, 0, TRUE),
                                  Call("completeJob", j, 0, FALSE)>>
    [] o = "done" -> <<Call("confirmJob", j, 0, TRUE), Call("execute", j, 0, TRUE),
                       Call("completeJob", j, 0, TRUE)>>

\* Lines 809-836: the calls of one job's pipeline; an exception at a step ends it.
PipelineCalls(j, o) ==
  CASE o = "confirm_failed" -> <<Call("confirmJob", j, 0, FALSE)>>
    [] o = "execute_failed" -> <<Call("confirmJob", j, 0, TRUE), Call("execute", j, 0, FALSE)>>
    [] o = "complete_failed" -> <<Call("confirmJob", j, 0, TRUE), Call("execute", j, 0, TRUE),
                                  Call("completeJob", j, 0, FALSE)>>
    [] o = "done" -> <<Call("confirmJob", j, 0, TRUE), Call("execute", j, 0, TRUE),
                       Call("completeJob", j, 0, TRUE)>>

\* A loop that a failed job ends: the jobs after it are never tried.
RECURSIVE JobCallsAbort(_, _)
JobCallsAbort(jobs, res) ==
  IF jobs = {} THEN <<>>
  ELSE LET j == CHOOSE x \in jobs : \A y \in jobs : x <= y
       IN IF res[j] = "done"
            THEN PipelineCalls(j, res[j]) \o JobCallsAbort(jobs \ {j}, res)
            ELSE PipelineCalls(j, res[j])

\* Line 808: the loop over the assigned jobs, here in ascending id order.
RECURSIVE JobCalls(_, _)
JobCalls(jobs, res) ==
  IF jobs = {} THEN <<>>
  ELSE LET j == CHOOSE x \in jobs : \A y \in jobs : x <= y
       IN PipelineCalls(j, res[j]) \o JobCalls(jobs \ {j}, res)

\* A read that falls back, when it fails, on a job known from before.
AssignedJobsCarried(returned, readOk) == IF readOk THEN returned ELSE {1}

\* Lines 838-851: _get_assigned_jobs, the ids getJobsDetailsByNode returned,
\* or none when the read raised.
AssignedJobs(returned, readOk) == IF readOk THEN returned ELSE {}

\* Lines 802-851 and 979-982: CONFIRM.  readOk = FALSE: getJobsDetailsByNode
\* raised, and _get_assigned_jobs returned {}.
process_assigned_jobs ==
  /\ Dispatched("process_assigned_jobs")
  /\ \E readOk \in BOOLEAN, returned \in SUBSET JobIds :
       /\ readOk \/ returned = {}
       /\ LET jobs == AssignedJobs(returned, readOk)
          IN \E res \in [jobs -> JobOutcomes] :
               /\ calls' = <<Call("getJobsDetailsByNode", node_id, Cardinality(returned),
                                  readOk)>>
                           \o JobCalls(jobs, res)
               /\ failedEver' = (failedEver \/ ~readOk \/ \E j \in jobs : res[j] # "done")
       /\ batch' = returned
       /\ HandlerReturned(epochs_processed)
  /\ UNCHANGED <<state, last_phase, state_changed, epochs_processed, current_secret,
                 current_commitment, is_leader, test_mode, ledgerPhase, disputeSeen,
                 nChanges, observed, missed, genSecret, sentCommitment, staleReveal,
                 secretStale, sinceConfirm, nSettled, commitFailed, skipped>>
  /\ UNCHANGED <<decVars, evVars, sent>>

\* Lines 871-880 and 984-988: DISPUTE.  The counter moves only when the
\* settlement went through.
\* A counter bumped whether or not the settlement went through.
CountedAlways(ep, ok) == Bump(ep)

\* Lines 986-988: `epochs_processed += 1` follows the return of
\* start_incentive_cycle; when that raises, line 988 is not reached.
Counted(ep, ok) == IF ok THEN Bump(ep) ELSE ep

start_incentive_cycle ==
  /\ Dispatched("start_incentive_cycle")
  /\ \E ok \in BOOLEAN :
       /\ calls' = <<Call("processAll", 0, 0, ok)>>
       /\ failedEver' = (failedEver \/ ~ok)
       /\ nSettled' = IF ok THEN Bump(nSettled) ELSE nSettled
       /\ epochs_processed' = Counted(epochs_processed, ok)
       /\ IF ok THEN HandlerReturned(epochs_processed') ELSE HandlerRaised
  /\ UNCHANGED <<state, last_phase, state_changed, current_secret, current_commitment,
                 is_leader, test_mode, ledgerPhase, disputeSeen, nChanges, observed,
                 missed, genSecret, sentCommitment, batch, staleReveal, secretStale,
                 sinceConfirm, commitFailed, skipped>>
  /\ UNCHANGED <<decVars, evVars, sent>>

\* -------------------------------------------------------------- the ledger

\* The ledger moves to its next phase, whatever the node is doing.  Leaving
\* DISPUTE begins a new epoch.
Advance ==
  /\ ledgerPhase' = (ledgerPhase + 1) % 6
  /\ observed' = FALSE
  /\ missed' = (missed \/ ~observed)
  /\ secretStale' = (secretStale \/ (/\ ledgerPhase = DISPUTE
                                       /\ \/ current_secret # None
                                          \/ pc = "dispatch" /\ state = 0))
  /\ sinceConfirm' = IF ledgerPhase = DISPUTE /\ sinceConfirm \in {1, 3} THEN 2 ELSE sinceConfirm
  /\ commitFailed' = (commitFailed /\ ledgerPhase # DISPUTE)
  /\ UNCHANGED <<nodeVars, tickVars, disputeSeen, nChanges, nDispatch, raisedIn,
                 firstHandler, failedEver, genSecret, sentCommitment, nSettled>>
  /\ UNCHANGED <<decVars, evVars, sent>>

\* ------------------------------------------------------- the specification

NodeStep ==
  \/ FetchRaises
  \/ FetchPaused
  \/ FetchOk
  \/ submit_commitment
  \/ reveal_secret
  \/ elect_leader
  \/ check_and_perform_leader_duties
  \/ process_assigned_jobs
  \/ start_incentive_cycle

Next == NodeStep \/ Advance

Spec == Init /\ [][Next]_vars

\* Test mode under fairness: the loop of run() never waits for anything but
\* its own calls and sleeps, and the ledger keeps moving through its phases.
\* The runs of test mode (TEST_MODE set in the environment).
TestInit == Init /\ test_mode

LiveSpec == TestInit /\ [][Next]_vars /\ WF_vars(NodeStep) /\ WF_vars(Advance)

\* ------------------------------------------------- the decoder's calls

\* A call that empties the selector table.
DecodeEffectForgets == error_selectors' = <<>> /\ UNCHANGED <<registry, built>>

\* Lines 209-268: what a call of decode_error or decode_contract_error does to
\* the handler.  Both only read self.error_selectors (lines 233-234); neither
\* assigns an attribute of self.
DecodeEffect == UNCHANGED <<registry, built, error_selectors>>

\* A call of decode_error (lines 209-252).
DecodeError ==
  /\ called = "none"
  /\ \E i \in Inputs :
       /\ raw' = i.raw
       /\ origin' = i.origin
       /\ decoded' = decode_error(error_selectors, i.raw)
  /\ called' = "decode_error"
  /\ DecodeEffect
  /\ UNCHANGED <<kept, nodeVars, ledgerPhase, tickVars, histVars, evVars, sent>>

\* A call of decode_contract_error (lines 254-268) with a ContractLogicError
\* carrying revert data, or with an exception that has no `data`.
DecodeContractError ==
  /\ called = "none"
  /\ \E i \in Inputs, hasData \in BOOLEAN :
       /\ raw' = ContractError(hasData, IF hasData THEN i.raw ELSE RawNone,
                                "execution reverted")
       /\ origin' = NoOrigin
       /\ decoded' = decode_contract_error(error_selectors, raw')
  /\ called' = "decode_contract_error"
  /\ DecodeEffect
  /\ UNCHANGED <<kept, nodeVars, ledgerPhase, tickVars, histVars, evVars, sent>>

DecodeNext == DecodeError \/ DecodeContractError

\* The handler as constructed, in a node that has not started its loop.
DecodeInit == Init /\ ~test_mode /\ ledgerPhase = DISPUTE

DecodeSpec == DecodeInit /\ [][DecodeNext]_vars

\* ------------------------------------------------ repeated calls of decode_error

\* Arguments of the repeated calls: the payload of the registered error with
\* each prefix, damaged, an unregistered selector, and values that are no text.
PureInputs ==
  LET t == Payload(Len(error_defs), <<MaxArg>>)
  IN {RawStr(p \o t) : p \in Prefixes}
     \cup {RawStr(Slice(t, 0, Len(t) - 1)), RawStr(t \o "zz"), RawStr("deadbeef"),
           RawStr("0xdeadbeef00"), RawStr(""), RawNone, RawTuple(<<>>),
           RawTuple(<<RawStr(t)>>)}

\* One more call of decode_error (lines 209-252); the observation either keeps
\* the call it remembers or remembers this one.
PureCall ==
  /\ \E i \in PureInputs :
       /\ raw' = i
       /\ decoded' = decode_error(error_selectors, i)
       /\ kept' \in {[kept EXCEPT !.later = IF kept.set THEN Bump(kept.later) ELSE 0],
                     [set |-> TRUE, raw |-> i, decoded |-> decoded', later |-> 0]}
  /\ origin' = NoOrigin
  /\ called' = "decode_error"
  /\ DecodeEffect
  /\ UNCHANGED <<nodeVars, ledgerPhase, tickVars, histVars, evVars, sent>>

PureNext == PureCall

PureSpec == DecodeInit /\ [][PureNext]_vars

\* ------------------------------------------------ the processing of events

\* The filters created (lines 15-20), in the order of creation.
Registered == {<<>>} \cup {<<a>> : a \in Filters}
              \cup {p \in Filters \X Filters : p[1] # p[2]}
              \cup {[i \in Filters |-> i]}

\* A call of process_events (lines 22-29), as _check_for_events makes it on
\* every tick (src/node_client.py, lines 480-482 and 929).
ProcessEvents ==
  /\ ~polled.called
  /\ \E fd \in [Filters -> Feeds] :
       /\ \A f \in Filters : (\E i \in DOMAIN event_filters : event_filters[i] = f)
                                 \/ fd[f] = [read |-> "ok", entries |-> <<>>]
       /\ feed' = fd
       /\ polled' = process_events(event_filters, fd, 1)
  /\ UNCHANGED <<event_filters, nodeVars, ledgerPhase, tickVars, histVars, decVars, sent>>

EventNext == ProcessEvents

EventInit ==
  /\ NodeInit /\ ~test_mode /\ ledgerPhase = DISPUTE
  /\ registry = error_defs
  /\ built = "yes"
  /\ error_selectors = BuildSelectors
  /\ NoCall
  /\ event_filters \in Registered
  /\ NoPoll
  /\ sent = NoSent

EventSpec == EventInit /\ [][EventNext]_vars

\* ------------------------------------------------- the SDK's transactions

\* A call of _send_transaction (lines 122-137) by an SDK whose error handler
\* is built.
SendTransaction ==
  /\ ~sent.called
  /\ \E a \in Attempts :
       sent' = [called |-> TRUE, attempt |-> a,
                result |-> send_transaction(error_selectors, a)]
  /\ UNCHANGED <<nodeVars, ledgerPhase, tickVars, histVars, decVars, evVars>>

SdkNext == SendTransaction

\* The SDK as constructed (lines 46-70), no transaction sent.
SdkInit == DecodeInit

SdkSpec == SdkInit /\ [][SdkNext]_vars

\* ------------------------------------------ the construction of the decoder

\* Lines 44-207: LuminoErrorHandler.__init__ on the registry.
Construct ==
  /\ built = "no"
  /\ built' = IF SelectorsOf(registry).failed THEN "failed" ELSE "yes"
  /\ error_selectors' = SelectorsOf(registry).table
  /\ UNCHANGED <<registry, called, raw, origin, decoded, kept, nodeVars, ledgerPhase,
                 tickVars, histVars, evVars, sent>>

BuildNext == Construct

\* Before construction, for each registry.
BuildInit ==
  /\ NodeInit /\ ~test_mode /\ ledgerPhase = DISPUTE
  /\ registry \in Registries
  /\ built = "no"
  /\ error_selectors = <<>>
  /\ NoCall
  /\ event_filters = <<>>
  /\ NoPoll
  /\ sent = NoSent

BuildSpec == BuildInit /\ [][BuildNext]_vars

\* ================================================================ claims

\* C1: no phase handler is dispatched on any tick up to and including the
\* first tick whose fetched phase is DISPUTE: can_begin is false until a tick
\* has fetched DISPUTE, and that first DISPUTE gets no settlement.
C1_NoDispatchBeforeFirstDispute ==
  /\ disputeSeen = 0 => ~can_begin
  /\ disputeSeen < 2 =>
       /\ pc # "dispatch"
       /\ handler = "none"
       /\ calls = <<>>
       /\ nDispatch = 0
       /\ epochs_processed = 0

\* The first tick that fetched DISPUTE has ended: can_begin is set and no
\* settlement was submitted.
C1_Witness ==
  /\ disputeSeen = 1
  /\ state = DISPUTE
  /\ pc = "tick"
  /\ can_begin
  /\ outcome = "idle"

\* C2: once can_begin is true, a tick dispatches a handler exactly when the
\* phase it fetched differs from the phase observed before, so the number of
\* dispatches equals the number of phase changes observed with can_begin true.
C2_OneDispatchPerPhaseChange ==
  /\ pc = "dispatch" => state_changed /\ can_begin /\ handler = "none"
                        /\ nChanges = Bump(nDispatch)
  /\ pc # "dispatch" => nDispatch = nChanges
  /\ handler # "none" => state_changed
  /\ outcome = "idle" /\ disputeSeen = 2 => ~state_changed

\* After two dispatches, a further tick of an unchanged phase ran no handler.
C2_Witness ==
  /\ can_begin
  /\ nDispatch = 2
  /\ nChanges = 2
  /\ outcome = "idle"
  /\ ~state_changed
  /\ pc = "tick"

\* The ledger calls each handler makes.
C3_CallsOf(h) ==
  CASE h = "submit_commitment" -> {"submitCommitment"}
    [] h = "reveal_secret" -> {"revealSecret"}
    [] h = "elect_leader" -> {"electLeader"}
    [] h = "check_and_perform_leader_duties" -> {"getCurrentLeader", "startAssignmentRound"}
    [] h = "process_assigned_jobs" -> {"getJobsDetailsByNode", "confirmJob", "execute", "completeJob"}
    [] h = "start_incentive_cycle" -> {"processAll"}

\* C3: the handler dispatched on a tick is the one of the phase fetched on that
\* tick (0 commit, 1 reveal, 2 elect, 3 leader duties, 4 jobs, 5 settlement),
\* and every call made on the tick is a call of that handler.
C3_HandlerMatchesFetchedPhase ==
  handler # "none" =>
    /\ state \in Phases
    /\ handler = <<"submit_commitment", "reveal_secret", "elect_leader",
                   "check_and_perform_leader_duties", "process_assigned_jobs",
                   "start_incentive_cycle">>[state + 1]
    /\ last_phase = state_names[state]
    /\ \A i \in DOMAIN calls : calls[i].fn \in C3_CallsOf(handler)

\* The COMMIT handler ran on a tick that fetched COMMIT and submitted a commitment.
C3_Witness ==
  /\ handler = "submit_commitment"
  /\ state = 0
  /\ Len(calls) = 1
  /\ calls[1].fn = "submitCommitment"

\* C4: outside test mode an exception of a dispatched handler is caught, run()
\* is back at the top of its loop, and no handler is dispatched while the
\* ticks keep fetching the phase whose handler raised.
C4_HandlerErrorContained ==
  ~test_mode =>
    /\ outcome = "raised" => pc = "tick"
    /\ pc = "dispatch" => raisedIn = NoPhase
    /\ raisedIn # NoPhase /\ handler # "none" => outcome = "raised"

\* A handler raised outside test mode and a later tick of the same phase went
\* by without a dispatch.
C4_Witness ==
  /\ ~test_mode
  /\ raisedIn # NoPhase
  /\ raisedIn = last_phase
  /\ outcome = "idle"
  /\ pc = "tick"

\* C5: in test mode an exception of a dispatched handler leaves run(): the
\* loop does not go on after it.
C5_TestModeErrorEndsRun ==
  (test_mode /\ outcome = "raised") => pc \in {"crashed", "returned"}

\* C6: a failure of the ledger read, on the first tick too, is followed by a
\* retry of the tick and never ends run().
C6_FetchFailureNeverEndsRun ==
  outcome = "fetch_failed" => pc = "tick"

\* The part of C7 that no run may violate: run() returns only in test mode, on
\* the tick whose DISPUTE settlement went through, and on that very tick.
C7_Safety ==
  /\ pc = "returned" =>
       /\ test_mode
       /\ epochs_processed >= 1
       /\ handler = "start_incentive_cycle"
       /\ outcome = "ok"
       /\ calls = <<Call("processAll", 0, 0, TRUE)>>
  /\ (test_mode /\ epochs_processed >= 1) => pc = "returned"

\* C7 as amended: in test mode run() returns on the first tick whose dispatched
\* DISPUTE settlement went through and not before; if the ledger keeps
\* cycling, every call succeeds and every phase is fetched by a tick before
\* the ledger leaves it, run() eventually returns.
C7_ReturnsAfterFirstSettlement ==
  /\ []C7_Safety
  /\ <>(~test_mode \/ failedEver \/ missed \/ pc = "returned")

\* C7 as stated: the same, without requiring that the ticks fetch every phase.
C7_ReturnsWheneverLedgerCycles ==
  /\ []C7_Safety
  /\ <>(~test_mode \/ failedEver \/ pc = "returned")

\* run() returned in test mode with every call successful and no phase missed.
C7_Witness ==
  /\ pc = "returned"
  /\ ~failedEver
  /\ ~missed

\* C8: if every phase the ledger went through was fetched by a tick, the first
\* handler run() ever dispatches is the COMMIT handler, whatever phase the
\* ledger was in when the node started.
C8_FirstHandlerIsCommit ==
  (firstHandler # "none" /\ ~missed) => firstHandler = "submit_commitment"

\* A first handler was dispatched with no phase missed, after a tick failure.
C8_Witness ==
  /\ firstHandler = "submit_commitment"
  /\ ~missed
  /\ failedEver
  /\ nDispatch = 1

\* C9: a value submitted by reveal is the secret of the most recent commit and
\* hashes to the commitment that commit submitted; the held secret and
\* commitment are both unset, or both set with commitment = hash(secret).
C9_RevealMatchesCommit ==
  /\ \/ current_secret = None /\ current_commitment = None
     \/ current_secret \in Secrets /\ current_commitment = Hash(current_secret)
  /\ \A i \in DOMAIN calls :
       calls[i].fn = "revealSecret" =>
         /\ calls[i].b \in Secrets
         /\ calls[i].b = genSecret
         /\ Hash(calls[i].b) = sentCommitment

\* A reveal went through and submitted the secret of the preceding commit.
C9_Witness ==
  /\ handler = "reveal_secret"
  /\ Len(calls) = 1
  /\ calls[1].fn = "revealSecret"
  /\ calls[1].ok
  /\ calls[1].b = genSecret
  /\ sentCommitment = Hash(genSecret)

\* C10: REVEAL dispatched with no secret held submits nothing, raises nothing,
\* leaves the node state as it was and the loop goes on.
C10_RevealWithoutSecretIsNoOp ==
  [][(pc = "dispatch" /\ handler' = "reveal_secret" /\ current_secret = None) =>
       /\ calls' = <<>>
       /\ outcome' = "ok"
       /\ pc' = "tick"
       /\ UNCHANGED <<current_secret, current_commitment, is_leader, epochs_processed,
                      last_phase, can_begin, state>>]_vars

\* The REVEAL branch ran with no secret held and the tick ended normally.
C10_Witness ==
  /\ handler = "reveal_secret"
  /\ current_secret = None
  /\ calls = <<>>
  /\ outcome = "ok"
  /\ pc = "tick"

\* C11: a secret submitted by the REVEAL handler was generated by a COMMIT
\* handler dispatched in the same ledger epoch as that REVEAL; a secret held
\* over from an earlier epoch is never revealed.
C11_RevealOnlySameEpochSecret ==
  \A i \in DOMAIN calls : calls[i].fn = "revealSecret" => ~staleReveal

\* C12: a COMMIT dispatch generates a secret, holds it with its commitment in
\* place of any earlier pair, and makes exactly one submitCommitment call,
\* carrying (node_id, new commitment); one secret at most is held.
C12_CommitReplacesAndSubmitsOnce ==
  /\ current_secret \in Secrets \cup {None}
  /\ handler = "submit_commitment" =>
       /\ current_secret \in Secrets
       /\ current_secret = genSecret
       /\ current_commitment = Hash(current_secret)
       /\ Len(calls) = 1
       /\ calls[1].fn = "submitCommitment"
       /\ calls[1].a = node_id
       /\ calls[1].b = current_commitment

\* A COMMIT handler ran after an epoch was settled and its submission went through.
C12_Witness ==
  /\ handler = "submit_commitment"
  /\ epochs_processed >= 1
  /\ Len(calls) = 1
  /\ calls[1].ok
  /\ calls[1].b = Hash(current_secret)

\* C13: reveal, whether its submission succeeds or fails, leaves the held
\* secret and commitment as they were; they change only in a COMMIT handler.
C13_RevealKeepsSecret ==
  [][/\ (pc = "dispatch" /\ handler' = "reveal_secret") =>
          UNCHANGED <<current_secret, current_commitment>>
     /\ (current_secret' # current_secret \/ current_commitment' # current_commitment) =>
          (pc = "dispatch" /\ handler' = "submit_commitment")]_vars

\* A reveal whose submission failed; the pair is still held.
C13_Witness ==
  /\ handler = "reveal_secret"
  /\ Len(calls) = 1
  /\ ~calls[1].ok
  /\ current_secret = calls[1].b
  /\ current_commitment = Hash(current_secret)

\* The number of startAssignmentRound submissions of this tick.
C14_StartCalls == Cardinality({i \in DOMAIN calls : calls[i].fn = "startAssignmentRound"})

\* C14: after the EXECUTE handler has read the leader, is_leader is true iff
\* the leader returned is this node, and startAssignmentRound is submitted
\* once in that case and not at all otherwise (nor by any other handler).
C14_LeaderIffElected ==
  /\ handler # "check_and_perform_leader_duties" => C14_StartCalls = 0
  /\ (handler = "check_and_perform_leader_duties" /\ calls[1].ok) =>
       /\ calls[1].fn = "getCurrentLeader"
       /\ is_leader = (calls[1].b = node_id)
       /\ C14_StartCalls = IF calls[1].b = node_id THEN 1 ELSE 0
  /\ (handler = "check_and_perform_leader_duties" /\ ~calls[1].ok) => C14_StartCalls = 0

\* The node was elected and its startAssignmentRound went through.
C14_Witness ==
  /\ handler = "check_and_perform_leader_duties"
  /\ is_leader
  /\ Len(calls) = 2
  /\ calls[1].b = node_id
  /\ calls[2].fn = "startAssignmentRound"
  /\ calls[2].ok

\* C15: when this node is the leader and startAssignmentRound fails, the
\* handler returns normally: nothing reaches run(), is_leader stays true and
\* no second startAssignmentRound is submitted.
C15_StartRoundFailureContained ==
  (/\ handler = "check_and_perform_leader_duties"
   /\ \E i \in DOMAIN calls : calls[i].fn = "startAssignmentRound" /\ ~calls[i].ok) =>
    /\ outcome = "ok"
    /\ raisedIn = NoPhase
    /\ pc = "tick"
    /\ is_leader
    /\ C14_StartCalls = 1

\* The leader's startAssignmentRound failed and the tick ended normally.
C15_Witness ==
  /\ handler = "check_and_perform_leader_duties"
  /\ Len(calls) = 2
  /\ ~calls[2].ok
  /\ outcome = "ok"
  /\ is_leader

\* The calls of this tick with function fn for job j.
JobCallsOf(fn, j) == {i \in DOMAIN calls : calls[i].fn = fn /\ calls[i].a = j}

\* C16: a failure at any step of one job does not abort the batch: every job
\* the ledger returned gets its own confirm -> execute -> complete attempt,
\* and process_assigned_jobs does not raise.
C16_JobFailureIsolated ==
  handler = "process_assigned_jobs" =>
    /\ outcome = "ok"
    /\ \A j \in batch :
         /\ Cardinality(JobCallsOf("confirmJob", j)) = 1
         /\ (\E i \in JobCallsOf("confirmJob", j) : calls[i].ok) =>
              Cardinality(JobCallsOf("execute", j)) = 1
         /\ (\E i \in JobCallsOf("execute", j) : calls[i].ok) =>
              Cardinality(JobCallsOf("completeJob", j)) = 1

\* The confirmation of job 1 failed and job 2 still went through its pipeline.
C16_Witness ==
  /\ handler = "process_assigned_jobs"
  /\ batch = {1, 2}
  /\ \E i \in DOMAIN calls : calls[i] = Call("confirmJob", 1, 0, FALSE)
  /\ \E i \in DOMAIN calls : calls[i] = Call("completeJob", 2, 0, TRUE)

\* C17: for each job, confirmJob comes before the execution and completeJob
\* only after both succeeded; a job whose confirm or execute step failed gets
\* no completeJob, and a job's pipeline has ended before the next one begins.
C17_PipelineOrder ==
  \A i \in DOMAIN calls :
    /\ calls[i].fn = "execute" =>
         /\ i > 1
         /\ calls[i - 1] = Call("confirmJob", calls[i].a, 0, TRUE)
    /\ calls[i].fn = "completeJob" =>
         /\ i > 2
         /\ calls[i - 1] = Call("execute", calls[i].a, 0, TRUE)
         /\ calls[i - 2] = Call("confirmJob", calls[i].a, 0, TRUE)
    /\ calls[i].fn = "confirmJob" =>
         /\ i > 1
         /\ \/ calls[i - 1].fn = "getJobsDetailsByNode"
            \/ /\ calls[i - 1].a # calls[i].a
               /\ calls[i - 1].fn \in {"confirmJob", "execute", "completeJob"}
               /\ (calls[i - 1].fn = "completeJob" \/ ~calls[i - 1].ok)

\* The execution of job 1 failed: no completeJob for it, and job 2 began next.
C17_Witness ==
  /\ handler = "process_assigned_jobs"
  /\ Len(calls) >= 4
  /\ calls[3] = Call("execute", 1, 0, FALSE)
  /\ calls[4].fn = "confirmJob"
  /\ calls[4].a = 2

\* C18: within one CONFIRM phase a job id gets at most one confirmJob and one
\* completeJob, and the CONFIRM handler that follows another is dispatched in
\* a later ledger epoch than that one.
C18_OneAttemptPerJobPerPhase ==
  /\ [](\A j \in JobIds : /\ Cardinality(JobCallsOf("confirmJob", j)) <= 1
                          /\ Cardinality(JobCallsOf("completeJob", j)) <= 1)
  /\ [][(pc = "tick" /\ pc' = "dispatch" /\ state' = 4) => sinceConfirm \in {0, 2}]_vars

\* A CONFIRM handler of a later epoch than an earlier one tried a job, whose
\* confirmation failed.
C18_Witness ==
  /\ handler = "process_assigned_jobs"
  /\ sinceConfirm = 3
  /\ \E i \in DOMAIN calls : calls[i].fn = "confirmJob" /\ ~calls[i].ok

\* C19: decode_error and decode_contract_error never raise: whatever they are
\* given (well-formed, truncated, non-hex, not a string, with or without
\* prefixes), the call ends with a string returned.
C19_DecoderNeverRaises ==
  called # "none" =>
    /\ ~decoded.raised
    /\ decoded.text \in STRING
    /\ decoded.text # ""

\* decode_error was given an empty tuple and returned the decode-failure message.
C19_Witness ==
  /\ called = "decode_error"
  /\ raw = RawTuple(<<>>)
  /\ ~decoded.raised
  /\ StartsWith(decoded.text, "Error decoding custom error: ()")

\* C20: for every error of error_defs and every well-formed ABI encoding of
\* its parameters, decode_error of the error's selector followed by the
\* encoding returns the error's formatter applied to the decoded values.
C20_RegisteredErrorsDecode ==
  (called = "decode_error" /\ origin # NoOrigin) =>
    decoded = Returned(Message(origin.e, origin.vals))


\* The selectors the registry derives, one per registered error.
SelectorOfEntry(i) == Keccak4Hex(Signature(registry[i]))

\* C21: after construction the selector table holds exactly one entry per
\* registered error, keyed by the first four bytes of the hash of that error's
\* own signature, and the table is as large as the registry.
C21_OneSelectorPerError ==
  built = "yes" =>
    /\ DOMAIN error_selectors = {SelectorOfEntry(i) : i \in 1..Len(registry)}
    /\ \A i \in 1..Len(registry) :
         /\ SelectorOfEntry(i) \in DOMAIN error_selectors
         /\ error_selectors[SelectorOfEntry(i)] = registry[i]
    /\ Cardinality(DOMAIN error_selectors) = Len(registry)

\* Two registered errors derive the same selector.
HasCollision ==
  \E i, j \in 1..Len(registry) : i < j /\ SelectorOfEntry(i) = SelectorOfEntry(j)

IsHex(s) == \A i \in 1..Len(s) : HexValue(CharAt(s, i)) >= 0

\* The four bytes the eight hex digits sel stand for are no key of the table.
UnknownSelector(table, sel) ==
  /\ Len(sel) = 8
  /\ IsHex(sel)
  /\ \A k \in DOMAIN table : fromhex(k) # fromhex(sel)

\* C23: for a text whose first eight hex digits, after an optional 0x, are a
\* selector that is not in the table, decode_error returns the unknown-selector
\* message with those eight digits, whatever follows them, and does not raise.
C23_UnknownSelectorMessage ==
  (called = "decode_error" /\ raw.kind = "str") =>
    \A p \in {"", "0x"} :
      (StartsWith(raw.text, p)
         /\ UnknownSelector(error_selectors, Slice(raw.text, Len(p), Len(p) + 8)))
      => decoded = Returned("Unknown error selector: 0x"
                              \o Slice(raw.text, Len(p), Len(p) + 8))

\* decode_error was given 0x, an unregistered selector and one more byte.
C23_Witness ==
  /\ called = "decode_error"
  /\ raw = RawStr("0xdeadbeef00")
  /\ decoded = Returned("Unknown error selector: 0xdeadbeef")


\* The text left when the revert prefix and then 0x are taken off the front.
Stripped(x) ==
  LET a == IF StartsWith(x, RevertPrefix) THEN SliceFrom(x, Len(RevertPrefix)) ELSE x
  IN IF StartsWith(a, "0x") THEN SliceFrom(a, 2) ELSE a

\* The text is not hex, or is shorter than a selector, or has a selector of
\* the table followed by parameter bytes that are not one word a parameter.
Malformed(table, x) ==
  LET t == Stripped(x)
      bytes == fromhex(t)
  IN \/ bytes = <<-1>>
     \/ Len(t) < 8
     \/ /\ Slice(t, 0, 8) \in DOMAIN table
        /\ Len(bytes) - 4 # 32 * Len(table[Slice(t, 0, 8)].params)

\* C24: for a text that is not valid hex after prefix stripping, or shorter
\* than a selector, or whose parameter bytes have the wrong length for the
\* matched definition, decode_error returns the decode-failure message with
\* the raw input as given embedded in it, and does not raise.
C24_MalformedInputMessage ==
  (called = "decode_error" /\ raw.kind = "str" /\ Malformed(error_selectors, raw.text)) =>
    /\ ~decoded.raised
    /\ StartsWith(decoded.text, "Error decoding custom error: ")
    /\ raw.text # "" => Find(decoded.text, raw.text) > 0


Decodable(table, x) ==
  /\ IsHex(x)
  /\ Len(x) >= 8
  /\ \/ UnknownSelector(table, Slice(x, 0, 8))
     \/ /\ Slice(x, 0, 8) \in DOMAIN table
        /\ Len(x) = 8 + 64 * Len(table[Slice(x, 0, 8)].params)

\* C30: for hex text X whose selector is unknown, or known with well-formed
\* parameters, decode_error returns the same string for X, for 0x followed by
\* X and for the revert prefix followed by either.
C30_PrefixesIgnored ==
  (called = "decode_error" /\ raw.kind = "str") =>
    \A p \in Prefixes :
      (StartsWith(raw.text, p) /\ Decodable(error_selectors, SliceFrom(raw.text, Len(p))))
      => decoded = decode_error(error_selectors, RawStr(SliceFrom(raw.text, Len(p))))

\* The registered error's payload, behind the revert prefix and 0x, decoded
\* to the error's message.
C30_Witness ==
  /\ called = "decode_error"
  /\ raw = RawStr(RevertPrefix \o "0x" \o Payload(Len(error_defs), <<MaxArg>>))
  /\ decoded = Returned(Message(Len(error_defs), <<MaxArg>>))


\* C26: every tick that fetched the ledger state, a tick whose handler raised
\* included, ends with a sleep of exactly min(time_left, 2) seconds before
\* the next fetch.
C26_EveryTickSleeps ==
  (pc = "tick" /\ outcome \in {"idle", "ok", "raised"}) =>
    nap.slept = (IF nap.time_left <= 2 THEN nap.time_left ELSE 2)


\* C27: epochs_processed is the number of DISPUTE dispatches whose settlement
\* went through: each such settlement adds one, and nothing else changes the
\* counter (a settlement that raises, a DISPUTE fetched without a dispatch and
\* the other handlers leave it as it is).
C27_CountsSettlements ==
  /\ [](epochs_processed = nSettled)
  /\ [][epochs_processed' # epochs_processed =>
         /\ pc = "dispatch"
         /\ handler' = "start_incentive_cycle"
         /\ calls'[1].fn = "processAll" /\ calls'[1].ok
         /\ epochs_processed' = epochs_processed + 1]_vars

\* A settlement raised after an earlier one had gone through: the counter
\* still reads one.
C27_Witness ==
  /\ handler = "start_incentive_cycle"
  /\ outcome = "raised"
  /\ epochs_processed = 1

\* C28: is_leader is written by the EXECUTE handler only, and only when
\* getCurrentLeader returned, to whether the leader returned is this node; a
\* failed getCurrentLeader and the other five handlers leave it as it was.
C28_LeaderWrittenByExecuteOnly ==
  /\ [][is_leader' # is_leader =>
         /\ pc = "dispatch"
         /\ handler' = "check_and_perform_leader_duties"
         /\ calls'[1].ok]_vars
  /\ [][(pc = "dispatch" /\ handler' = "check_and_perform_leader_duties") =>
         is_leader' = IF calls'[1].ok THEN calls'[1].b = node_id ELSE is_leader]_vars

\* The node was leader in an earlier epoch and getCurrentLeader has now
\* failed: it still counts itself leader.
C28_Witness ==
  /\ handler = "check_and_perform_leader_duties"
  /\ ~calls[1].ok
  /\ Len(calls) = 1
  /\ is_leader


\* C29: the jobs a CONFIRM dispatch works on are exactly those the ledger
\* read at its start returned; when that read fails there is no job, no
\* confirmJob or completeJob call, and the handler returns.
C29_BatchIsFreshRead ==
  handler = "process_assigned_jobs" =>
    /\ calls[1].fn = "getJobsDetailsByNode"
    /\ \A i \in 2..Len(calls) : calls[i].fn # "getJobsDetailsByNode"
    /\ {calls[i].a : i \in 2..Len(calls)} = batch
    /\ \A j \in batch : \E i \in 2..Len(calls) : calls[i].fn = "confirmJob" /\ calls[i].a = j
    /\ ~calls[1].ok => (batch = {} /\ Len(calls) = 1 /\ outcome = "ok")

\* A second CONFIRM dispatch whose read failed: nothing was confirmed or
\* completed and the tick ended normally.
C29_Witness ==
  /\ handler = "process_assigned_jobs"
  /\ sinceConfirm = 3
  /\ ~calls[1].ok
  /\ Len(calls) = 1
  /\ outcome = "ok"


\* C31: handlers never overlap.  A handler starts only where the tick has
\* dispatched it and no other handler has run since the fetch, it has
\* returned or raised by the end of its step, and the ledger state is
\* fetched only when no handler is pending.
C31_HandlersNeverOverlap ==
  /\ [](pc = "dispatch" => (handler = "none" /\ outcome = "none" /\ calls = <<>>))
  /\ [][(handler' # "none" /\ (handler' # handler \/ calls' # calls \/ outcome' # outcome)) =>
         /\ pc = "dispatch"
         /\ pc' \in {"tick", "returned", "crashed"}
         /\ outcome' \in {"ok", "raised"}]_vars
  /\ [][(outcome' \in {"idle", "none", "fetch_failed", "bad_phase"} /\ ledgerPhase' = ledgerPhase)
         => pc = "tick"]_vars

\* Two handlers have run, one after the other, and the loop is at a fetch.
C31_Witness ==
  /\ pc = "tick"
  /\ nDispatch = 2
  /\ handler = "reveal_secret"
  /\ outcome = "ok"


\* C32: a tick that fails before the phase is read dispatches no handler and
\* leaves last_phase, can_begin, epochs_processed, the held secret and
\* is_leader as they were; the tick that retries it dispatches the handler of
\* the phase it fetches exactly when that phase differs from the phase last
\* observed (and the node may begin), and then marks the phase as observed.
C32_FailedTickChangesNothing ==
  /\ [][outcome' = "fetch_failed" =>
         /\ handler' = "none" /\ calls' = <<>>
         /\ pc' # "dispatch"
         /\ UNCHANGED <<last_phase, can_begin, epochs_processed, current_secret,
                        current_commitment, is_leader>>]_vars
  /\ [][(outcome = "fetch_failed" /\ pc = "tick" /\ outcome' \in {"none", "idle"}) =>
         /\ (pc' = "dispatch") = (can_begin /\ last_phase # state_names[ledgerPhase])
         /\ last_phase' = state_names[ledgerPhase]
         /\ state' = ledgerPhase]_vars

\* A tick failed before the read while the node holds a secret; the ledger
\* has moved to a phase the node has not observed, which the retry will find.
C32_Witness ==
  /\ pc = "tick"
  /\ outcome = "fetch_failed"
  /\ can_begin
  /\ current_secret # None
  /\ last_phase = "COMMIT"
  /\ ledgerPhase = 1


\* C33: when the submitCommitment of a COMMIT dispatch fails, the secret just
\* generated and its commitment stay held, and the next REVEAL dispatch
\* submits that secret although the commitment for it was not accepted: the
\* pair stays held until a later COMMIT dispatch, and a REVEAL dispatch
\* submits whatever secret is held.
C33_FailedCommitKeepsSecret ==
  /\ [][(pc = "dispatch" /\ handler' = "submit_commitment" /\ ~calls'[1].ok) =>
         /\ outcome' = "raised"
         /\ current_secret' \in Secrets
         /\ current_secret' = genSecret'
         /\ current_commitment' = Hash(current_secret')]_vars
  /\ [](commitFailed => (current_secret \in Secrets /\ current_secret = genSecret))
  /\ [][current_secret' # current_secret => (pc = "dispatch" /\ handler' = "submit_commitment")]_vars
  /\ [][(pc = "dispatch" /\ handler' = "reveal_secret" /\ current_secret # None) =>
         /\ Len(calls') = 1
         /\ calls'[1].fn = "revealSecret"
         /\ calls'[1].a = node_id
         /\ calls'[1].b = current_secret]_vars

\* The commitment of the held secret was refused, and the REVEAL handler has
\* submitted the secret.
C33_Witness ==
  /\ handler = "reveal_secret"
  /\ commitFailed
  /\ Len(calls) = 1
  /\ calls[1].fn = "revealSecret"
  /\ calls[1].b = current_secret
  /\ calls[1].ok


\* C34: a tick that fetches the phase the previous successful tick fetched
\* dispatches no handler, also when the ledger has meanwhile left that phase
\* and come back to it one or more epochs later: the action of that phase is
\* skipped for the epoch.
C34_SamePhaseNeverDispatched ==
  /\ [][(pc = "tick" /\ outcome' \in {"idle", "none"} /\ state' = ledgerPhase
           /\ last_phase = state_names[ledgerPhase]) =>
         /\ outcome' = "idle"
         /\ pc' # "dispatch"
         /\ handler' = "none" /\ calls' = <<>>
         /\ nDispatch' = nDispatch]_vars
  /\ [](skipped => (pc # "dispatch" /\ handler = "none" /\ ~state_changed /\ can_begin))

\* The ledger went round to the phase CONFIRM that the node had last fetched;
\* the tick that found it there dispatched nothing.
C34_Witness ==
  /\ skipped
  /\ pc = "tick"
  /\ outcome = "idle"
  /\ state = 4
  /\ last_phase = "CONFIRM"
  /\ handler = "none"


\* C35: a tick that is told phase code 6 (PAUSED) fails on the phase table:
\* no handler is dispatched, last_phase and can_begin stay as they were and
\* the loop fetches again after the retry pause; a tick that then finds the
\* ledger in the phase observed before the pause dispatches nothing.
C35_PausedTickRetried ==
  /\ [][(pc = "tick" /\ outcome' = "bad_phase") =>
         /\ state' = PAUSED
         /\ pc' = "tick"
         /\ handler' = "none" /\ calls' = <<>>
         /\ nap'.slept = RetryPause
         /\ nDispatch' = nDispatch
         /\ UNCHANGED <<last_phase, can_begin>>]_vars
  /\ [][(pc = "tick" /\ outcome = "bad_phase" /\ outcome' \in {"idle", "none"}
           /\ last_phase = state_names[ledgerPhase]) =>
         /\ outcome' = "idle"
         /\ pc' = "tick"
         /\ nDispatch' = nDispatch]_vars

\* The ledger paused in REVEAL after the node had dispatched its handler; the
\* tick failed, slept, and the ledger is still in REVEAL for the next fetch.
C35_Witness ==
  /\ pc = "tick"
  /\ outcome = "bad_phase"
  /\ state = PAUSED
  /\ can_begin
  /\ last_phase = "REVEAL"
  /\ ledgerPhase = 1
  /\ nap.slept = RetryPause
  /\ nDispatch >= 1


\* C36: can_begin is monotonic.  It starts false; it becomes true on a tick
\* that fetched DISPUTE and reached its end, and the first such tick makes it
\* true; once true, no tick, handler failure or tick failure makes it false.
C36_CanBeginMonotonic ==
  /\ ~can_begin
  /\ [][can_begin => can_begin']_vars
  /\ [][(~can_begin /\ can_begin') =>
         /\ pc = "tick" /\ pc' = "tick"
         /\ state' = DISPUTE
         /\ outcome' = "idle"]_vars
  /\ [][(~can_begin /\ pc = "tick" /\ outcome' = "idle" /\ state' = DISPUTE
           /\ ledgerPhase' = ledgerPhase /\ observed') => can_begin']_vars

\* The node had begun, a handler raised, and can_begin is still true.
C36_Witness ==
  /\ can_begin
  /\ pc = "tick"
  /\ outcome = "raised"
  /\ handler = "start_incentive_cycle"


\* The filters whose poll fails: the read raises, or an entry cannot be logged.
FailingFilter(f) ==
  \/ feed[f].read = "raises"
  \/ \E i \in DOMAIN feed[f].entries : feed[f].entries[i] = "bad"

\* C37: process_events never raises and isolates the filters: every
\* registered filter is polled, in order, whatever the others did; a filter
\* whose read or logging fails has its error logged once; the entries logged
\* are, for each filter, those before its first failure.
C37_EventsIsolated ==
  polled.called =>
    /\ ~polled.raised
    /\ polled.filters = event_filters
    /\ \A f \in Filters :
         (\E i \in DOMAIN polled.errors : polled.errors[i] = f)
           = ((\E i \in DOMAIN event_filters : event_filters[i] = f) /\ FailingFilter(f))
    /\ Len(polled.errors) <= Len(event_filters)
    /\ \A k \in DOMAIN event_filters :
         LET f == event_filters[k] IN
         \A i \in DOMAIN feed[f].entries :
           (\E n \in DOMAIN polled.logged : polled.logged[n] = <<f, i>>)
             = (feed[f].read = "ok" /\ \A j \in 1..i : feed[f].entries[j] = "good")

\* The first filter's read raised and the second filter's entry was logged.
C37_Witness ==
  /\ polled.called
  /\ event_filters = <<1, 2>>
  /\ feed[1].read = "raises"
  /\ feed[2] = [read |-> "ok", entries |-> <<"good">>]
  /\ polled.errors = <<1>>
  /\ polled.logged = <<(<<2, 1>>)>>
  /\ ~polled.raised


\* C38: _send_transaction has exactly two outcomes: it returns the receipt
\* (when none of its calls fails, whatever the status of the receipt), or it
\* raises ContractError. A ContractLogicError raised by any of its calls
\* becomes a ContractError whose message is "Contract error: " followed by the
\* decoded message; any other exception raised while the transaction count is
\* read or the transaction is built, signed, sent or waited for becomes a
\* ContractError "Transaction failed: ..." with the text of the exception. No
\* exception of another class leaves the method.
C38_ReceiptOrContractError ==
  sent.called =>
    LET a == sent.attempt
        r == sent.result
    IN /\ r.returned = (a.stage = 0)
       /\ r.returned => /\ r.receipt = Receipt(a.status)
                        /\ r.exc = ""
                        /\ r.made = Len(Stages)
       /\ ~r.returned => /\ r.exc = "ContractError"
                         /\ r.receipt = NoReceipt
                         /\ r.made = a.stage
       /\ (a.stage # 0 /\ a.exc = "ContractLogicError") =>
            /\ ~decode_contract_error(error_selectors, a.error).raised
            /\ r.message = "Contract error: "
                             \o decode_contract_error(error_selectors, a.error).text
       /\ (a.stage # 0 /\ a.exc # "ContractLogicError") =>
            r.message = "Transaction failed: " \o a.error.message

\* A timeout of the wait for the receipt has been turned into a ContractError.
C38_Witness ==
  /\ sent.called
  /\ sent.attempt.stage = Len(Stages)
  /\ sent.attempt.exc = "TimeExhausted"
  /\ sent.result.exc = "ContractError"
  /\ sent.result.message = "Transaction failed: TimeExhausted raised"

====
